---- MODULE Spec2Model ----
(***************************************************************************)
(* A model of the ZL3073x DPLL / PTP hardware clock driver                 *)
(* (src/zl3073x/ptp_zl3073x.c).                                            *)
(*                                                                         *)
(* The source file holds three generations of the driver one after the     *)
(* other: lines 1..4056, lines 4058..6634 (suffix _v2 here) and lines      *)
(* 6636..8040 (suffix _v3 here).  One generation is loaded at a time.      *)
(*                                                                         *)
(* Every C function is a table of statements with the C function's name.   *)
(* A thread executes the table of the operation it called one statement    *)
(* per step; a bus access, a mutex operation, a call and a return are one  *)
(* step each.  The device answers requests in steps of its own.            *)
(***************************************************************************)
EXTENDS Integers, Sequences, FiniteSets, TLC

VARIABLES
    workload,     \* the operations the threads of this run call
    ncalls,       \* per thread: the operations it has called
    lock,         \* owner of zl3073x->lock, 0 when free
    stack,        \* per thread: call stack of frames [f, i, a]
    th,           \* per thread: locals of the running operation and ghosts
    mb_mask,      \* the mask register of a mailbox (target selected)
    mb_sem,       \* per mailbox: the semaphore register (request pending)
    mb_win,       \* the mask whose data the window of a mailbox holds
    tod_ctrl,     \* DPLL_TOD_CTRL: pending command with the semaphore bit
    tod_sec,      \* DPLL_TOD_SEC: the seconds the device latched last
    step_ctrl,    \* DPLL_OUTPUT_PHASE_STEP_CTRL: pending operation
    tie_ctrl,     \* DPLL_TIE_CTRL: pending operation
    perout_mask,  \* dpll->perout_mask
    prio,         \* reference priority: the packed byte and the last call
    infreq,       \* input frequency: the reference registers and last call
    fcall         \* the function a function-level specification calls:
                  \* the registers it uses, its arguments and its results

vars == <<workload, ncalls, lock, stack, th, mb_mask, mb_sem, mb_win, tod_ctrl,
          tod_sec, step_ctrl, tie_ctrl, perout_mask, prio, infreq, fcall>>

(***************************************************************************)
(* Bounds of the model.                                                    *)
(***************************************************************************)
Threads == {1, 2}
MaxCalls == 1
MaxSec == 2

(***************************************************************************)
(* Constants of the driver.                                                *)
(***************************************************************************)
NSEC_PER_SEC == 1000000000
DPLL_TOD_CTRL_SEM == 16
DPLL_REF_MB_SEM_RD == 2
DPLL_REF_MB_SEM_WR == 1
DPLL_TIE_CTRL_MASK == 7
DPLL_TIE_CTRL_OPERATION == 4
DPLL_OUTPUT_PHASE_STEP_CTRL_OP_MASK == 3
DPLL_OUTPUT_PAHSE_STEP_CTRL_OP_WRITE == 3
DPLL_OUTPUT_PHASE_STEP_CTRL_TOD_STEP == 8
ZL3073X_TOD_CTRL_CMD_WRITE_NEXT_1HZ == 1
ZL3073X_TOD_CTRL_CMD_READ == 8
ZL3073X_TOD_CTRL_CMD_READ_NEXT_1HZ == 9
ZL3073X_MODE_REFLOCK == 2
ZL3073X_MODE_AUTO_LOCK == 3

Errno == [EIO |-> 5, ENXIO |-> 6, EINVAL |-> 22, ERANGE |-> 34,
          EOPNOTSUPP |-> 95, ETIMEDOUT |-> 110, EREMOTEIO |-> 121]

\* What the bus (regmap_bulk_read / regmap_bulk_write) can fail with.
TransportErrors == {Errno.EIO, Errno.EREMOTEIO}

\* Values an uninitialised u8 can hold: every bit clear, every bit set.
UninitBytes == {0, 255}

RECURSIVE BitAnd(_, _)
BitAnd(a, b) ==
    IF a = 0 \/ b = 0 THEN 0
    ELSE (a % 2) * (b % 2) + 2 * BitAnd(a \div 2, b \div 2)

RECURSIVE BitOr(_, _)
BitOr(a, b) ==
    IF a = 0 THEN b
    ELSE IF b = 0 THEN a
    ELSE (IF a % 2 = 1 \/ b % 2 = 1 THEN 1 ELSE 0) + 2 * BitOr(a \div 2, b \div 2)

\* The low byte of a C int, two's complement (LowByte(-5) = 251).
LowByte(v) == v % 256

(***************************************************************************)
(* Statements of a function table.  The last field of a bus access, a poll *)
(* or a call says what the code does with the result: a label name is      *)
(* "ret = ...; if (ret) goto label", "next" is "ret = ..." with no test,   *)
(* "none" is a result that is thrown away.                                 *)
(***************************************************************************)
Lock == [k |-> "lock"]
Unlock == [k |-> "unlock"]
Label(n) == [k |-> "label", n |-> n]
Wr(reg, v, e) == [k |-> "wr", reg |-> reg, v |-> v, e |-> e]
Rd(reg, dst, e) == [k |-> "rd", reg |-> reg, dst |-> dst, e |-> e]
Poll(fn, mask, e) == [k |-> "poll", fn |-> fn, mask |-> mask, e |-> e]
Call(f, a, e) == [k |-> "call", f |-> f, a |-> a, e |-> e]
Ret(v) == [k |-> "ret", v |-> v]
Local(c, to) == [k |-> "local", c |-> c, to |-> to]

\* Registers: the three registers of a mailbox, and the directly mapped ones.
MbMask(m) == [role |-> "mask", mb |-> m]
MbSem(m) == [role |-> "sem", mb |-> m]
MbData(m, n) == [role |-> n, mb |-> m]
Direct(n) == [role |-> n, mb |-> "none"]

Mailboxes == {"ref", "dpll", "synth", "out"}

\* The mailboxes whose data the modelled code computes with: the model keeps
\* their target and window; of the others it keeps the semaphore.
Windowed == {"synth"}

(***************************************************************************)
(* The semaphore readers handed to readx_poll_timeout_atomic: the register *)
(* each one reads and what it returns when the read fails ("errno": the    *)
(* negative error code; "uninit": the u8 it never assigned).               *)
(***************************************************************************)
SemReaders ==
    [ zl3073x_ptp_tod_sem       |-> [reg |-> Direct("tod_ctrl"),  fail |-> "errno"],
      zl3073x_ptp_phase_ctrl_op |-> [reg |-> Direct("step_ctrl"), fail |-> "errno"],
      zl3073x_ptp_tie_ctrl_op   |-> [reg |-> Direct("tie_ctrl"),  fail |-> "errno"],
      zl3073x_ref_mb_sem        |-> [reg |-> MbSem("ref"),        fail |-> "errno"],
      zl3073x_ptp_synth_mb_sem  |-> [reg |-> MbSem("synth"),      fail |-> "errno"],
      zl3073x_dpll_mb_sem       |-> [reg |-> MbSem("dpll"),       fail |-> "errno"],
      zl3073x_ptp_tod_sem_v2    |-> [reg |-> Direct("tod_ctrl"),  fail |-> "uninit"],
      zl3073x_ptp_synth_mb_sem_v2 |-> [reg |-> MbSem("synth"),    fail |-> "uninit"],
      zl3073x_dpll_mb_sem_v2    |-> [reg |-> MbSem("dpll"),       fail |-> "uninit"],
      zl3073x_dpll_mb_sem_v3    |-> [reg |-> MbSem("dpll"),       fail |-> "uninit"] ]

(***************************************************************************)
(* Time of day and clock servo (first generation).                         *)
(***************************************************************************)
_zl3073x_ptp_gettime64 ==
    << Poll("zl3073x_ptp_tod_sem", DPLL_TOD_CTRL_SEM, "out"),
       Wr(Direct("tod_ctrl"), "cmd", "out"),
       Poll("zl3073x_ptp_tod_sem", DPLL_TOD_CTRL_SEM, "out"),
       Rd(Direct("tod_sec"), "ts", "out"),
       Rd(Direct("tod_nsec"), "none", "out"),
       Label("out"),
       Ret("ret") >>

zl3073x_ptp_gettime64 ==
    << Lock,
       Call("_zl3073x_ptp_gettime64", "ZL3073X_TOD_CTRL_CMD_READ", "next"),
       Unlock,
       Ret("ret") >>

_zl3073x_ptp_settime64 ==
    << Poll("zl3073x_ptp_tod_sem", DPLL_TOD_CTRL_SEM, "out"),
       Wr(Direct("tod_sec"), "data", "out"),
       Wr(Direct("tod_nsec"), "data", "out"),
       Wr(Direct("tod_ctrl"), "cmd", "next"),
       Label("out"),
       Ret("ret") >>

zl3073x_ptp_settime64 ==
    << Lock,
       Call("_zl3073x_ptp_settime64", "ZL3073X_TOD_CTRL_CMD_WRITE_NEXT_1HZ", "next"),
       Unlock,
       Ret("ret") >>

zl3073x_ptp_wait_sec_rollover ==
    << Local("init_ts_clear", "none"),
       Label("loop"),
       Poll("zl3073x_ptp_tod_sem", DPLL_TOD_CTRL_SEM, "out"),
       Call("_zl3073x_ptp_gettime64", "ZL3073X_TOD_CTRL_CMD_READ_NEXT_1HZ", "out"),
       Local("second_rolled_over", "out"),
       Local("msleep", "loop"),
       Label("out"),
       Ret("ret") >>

_zl3073x_ptp_get_synth_freq ==
    << Wr(MbMask("synth"), "synth", "out"),
       Wr(MbSem("synth"), DPLL_REF_MB_SEM_RD, "out"),
       Poll("zl3073x_ptp_synth_mb_sem", DPLL_REF_MB_SEM_RD, "out"),
       Rd(MbData("synth", "FREQ_BASE"), "none", "out"),
       Rd(MbData("synth", "FREQ_MULT"), "none", "out"),
       Rd(MbData("synth", "FREQ_M"), "none", "out"),
       Rd(MbData("synth", "FREQ_N"), "freq", "out"),
       Label("out"),
       Ret("ret") >>

zl3073x_ptp_adjphase ==
    << Lock,
       Wr(Direct("tie_ctrl_mask"), "dpll", "out"),
       Poll("zl3073x_ptp_tie_ctrl_op", DPLL_TIE_CTRL_MASK, "out"),
       Wr(Direct("tie_data"), "data", "out"),
       Wr(Direct("tie_ctrl"), DPLL_TIE_CTRL_OPERATION, "out"),
       Poll("zl3073x_ptp_tie_ctrl_op", DPLL_TIE_CTRL_MASK, "next"),
       Label("out"),
       Unlock,
       Ret("ret") >>

_zl3073x_ptp_steptime ==
    << Poll("zl3073x_ptp_phase_ctrl_op", DPLL_OUTPUT_PHASE_STEP_CTRL_OP_MASK, "out"),
       Wr(Direct("step_number"), "data", "out"),
       Rd(Direct("output_ctrl_ffs"), "synth", "out"),
       Call("_zl3073x_ptp_get_synth_freq", "none", "out"),
       Wr(Direct("step_data"), "data", "out"),
       Wr(Direct("step_mask"), "data", "out"),
       Wr(Direct("step_ctrl"),
          DPLL_OUTPUT_PAHSE_STEP_CTRL_OP_WRITE + DPLL_OUTPUT_PHASE_STEP_CTRL_TOD_STEP,
          "next"),
       Label("out"),
       Ret("ret") >>

\* zl3073x_ptp_adjtime with the wait for the rollover left out.
adjtime_without_wait ==
    << Lock,
       Local("delta_below_one_second", "step"),
       Call("_zl3073x_ptp_gettime64", "ZL3073X_TOD_CTRL_CMD_READ_NEXT_1HZ", "out"),
       Call("_zl3073x_ptp_settime64", "ZL3073X_TOD_CTRL_CMD_WRITE_NEXT_1HZ", "out"),
       Poll("zl3073x_ptp_tod_sem", DPLL_TOD_CTRL_SEM, "out"),
       Label("step"),
       Call("_zl3073x_ptp_steptime", "none", "next"),
       Label("out"),
       Unlock,
       Ret("ret") >>

zl3073x_ptp_adjtime ==
    << Lock,
       Local("delta_below_one_second", "step"),
       Call("zl3073x_ptp_wait_sec_rollover", "none", "out"),
       Call("_zl3073x_ptp_gettime64", "ZL3073X_TOD_CTRL_CMD_READ_NEXT_1HZ", "out"),
       Call("_zl3073x_ptp_settime64", "ZL3073X_TOD_CTRL_CMD_WRITE_NEXT_1HZ", "out"),
       Poll("zl3073x_ptp_tod_sem", DPLL_TOD_CTRL_SEM, "out"),
       Label("step"),
       Call("_zl3073x_ptp_steptime", "none", "next"),
       Label("out"),
       Unlock,
       Ret("ret") >>

zl3073x_ptp_adjfine ==
    << Local("scaled_ppm_zero", "zero"),
       Lock,
       Wr(Direct("df_offset"), "data", "next"),
       Unlock,
       Ret("ret"),
       Label("zero"),
       Ret("zero") >>

(***************************************************************************)
(* Time of day read of the second generation: the results of the bus       *)
(* accesses are not looked at.                                             *)
(***************************************************************************)
_zl3073x_ptp_gettime64_v2 ==
    << Poll("zl3073x_ptp_tod_sem_v2", DPLL_TOD_CTRL_SEM, "bail"),
       Wr(Direct("tod_ctrl"), "cmd", "none"),
       Poll("zl3073x_ptp_tod_sem_v2", DPLL_TOD_CTRL_SEM, "bail"),
       Rd(Direct("tod_sec"), "ts", "none"),
       Rd(Direct("tod_nsec"), "none", "none"),
       Ret("zero"),
       Label("bail"),
       Ret("ret") >>

zl3073x_ptp_gettime64_v2 ==
    << Lock,
       Call("_zl3073x_ptp_gettime64_v2", "ZL3073X_TOD_CTRL_CMD_READ", "next"),
       Unlock,
       Ret("ret") >>

(***************************************************************************)
(* Reference priority (DPLL mailbox).                                      *)
(***************************************************************************)
zl3073x_dpll_get_priority_ref ==
    << Lock,
       Wr(MbMask("dpll"), "dpll", "out"),
       Wr(MbSem("dpll"), DPLL_REF_MB_SEM_RD, "out"),
       Poll("zl3073x_dpll_mb_sem", DPLL_REF_MB_SEM_RD, "out"),
       Rd(MbData("dpll", "REF_PRIORITY"), "none", "out"),
       Label("out"),
       Unlock,
       Ret("ret") >>

zl3073x_dpll_set_priority_ref ==
    << Lock,
       Wr(MbMask("dpll"), "dpll", "out"),
       Wr(MbSem("dpll"), DPLL_REF_MB_SEM_RD, "out"),
       Poll("zl3073x_dpll_mb_sem", DPLL_REF_MB_SEM_RD, "out"),
       Rd(MbData("dpll", "REF_PRIORITY"), "none", "out"),
       Wr(MbData("dpll", "REF_PRIORITY"), "data", "out"),
       Wr(MbSem("dpll"), DPLL_REF_MB_SEM_WR, "out"),
       Poll("zl3073x_dpll_mb_sem", DPLL_REF_MB_SEM_WR, "out"),
       Label("out"),
       Unlock,
       Ret("ret") >>

\* Third generation: no bus result is looked at, a poll that fails returns
\* at once, and the value read is returned in place of a status.
zl3073x_dpll_get_priority_ref_v3 ==
    << Lock,
       Wr(MbMask("dpll"), "dpll", "none"),
       Wr(MbSem("dpll"), DPLL_REF_MB_SEM_RD, "none"),
       Poll("zl3073x_dpll_mb_sem_v3", DPLL_REF_MB_SEM_RD, "bail"),
       Rd(MbData("dpll", "REF_PRIORITY"), "val", "none"),
       Unlock,
       Ret("val"),
       Label("bail"),
       Ret("ret") >>

(***************************************************************************)
(* Output phase adjust and output frequency (output mailbox).  The synth   *)
(* of the output and its frequency are read before the mutex is taken.     *)
(***************************************************************************)
zl3073x_synth_get ==
    << Rd(Direct("output_ctrl"), "synth", "next"),
       Ret("ret") >>

zl3073x_dpll_get_output_phase_adjust ==
    << Call("zl3073x_synth_get", "x", "bail"),
       Call("_zl3073x_ptp_get_synth_freq", "none", "bail"),
       Lock,
       Wr(MbMask("out"), "pair", "out"),
       Wr(MbSem("out"), DPLL_REF_MB_SEM_RD, "out"),
       Poll("zl3073x_dpll_mb_sem", DPLL_REF_MB_SEM_RD, "out"),
       Rd(MbData("out", "PHASE_COMPENSATION"), "none", "out"),
       Label("out"),
       Unlock,
       Ret("ret"),
       Label("bail"),
       Ret("ret") >>

zl3073x_dpll_set_output_phase_adjust ==
    << Call("zl3073x_synth_get", "x", "bail"),
       Call("_zl3073x_ptp_get_synth_freq", "none", "bail"),
       Local("phase_not_a_divisor", "erange"),
       Lock,
       Wr(MbMask("out"), "pair", "out"),
       Wr(MbData("out", "PHASE_COMPENSATION"), "data", "out"),
       Wr(MbSem("out"), DPLL_REF_MB_SEM_WR, "out"),
       Poll("zl3073x_dpll_mb_sem", DPLL_REF_MB_SEM_WR, "out"),
       Label("out"),
       Unlock,
       Ret("zero"),
       Label("erange"),
       Ret("ERANGE"),
       Label("bail"),
       Ret("ret") >>

zl3073x_dpll_get_output_frequency ==
    << Call("zl3073x_synth_get", "x", "bail"),
       Call("_zl3073x_ptp_get_synth_freq", "none", "bail"),
       Lock,
       Wr(MbMask("out"), "pair", "out"),
       Wr(MbSem("out"), DPLL_REF_MB_SEM_RD, "out"),
       Poll("zl3073x_dpll_mb_sem", DPLL_REF_MB_SEM_RD, "out"),
       Rd(MbData("out", "DIV"), "none", "out"),
       Local("not_divided_n_pin", "out"),
       Rd(MbData("out", "ESYNC_DIV"), "none", "out"),
       Label("out"),
       Unlock,
       Ret("ret"),
       Label("bail"),
       Ret("ret") >>

(***************************************************************************)
(* Output phase adjust of the second generation.  No bus result is looked  *)
(* at; _zl3073x_ptp_get_synth_freq returns the frequency, or the poll's    *)
(* error in its place; zl3073x_synth_get is the read of the output control *)
(* register.  A frequency of 0 stops the thread in the division.           *)
(***************************************************************************)
_zl3073x_ptp_get_synth_freq_v2 ==
    << Wr(MbMask("synth"), "synth", "none"),
       Wr(MbSem("synth"), DPLL_REF_MB_SEM_RD, "none"),
       Poll("zl3073x_ptp_synth_mb_sem_v2", DPLL_REF_MB_SEM_RD, "bail"),
       Rd(MbData("synth", "FREQ_BASE"), "none", "none"),
       Rd(MbData("synth", "FREQ_MULT"), "none", "none"),
       Rd(MbData("synth", "FREQ_M"), "none", "none"),
       Rd(MbData("synth", "FREQ_N"), "freq", "none"),
       Ret("zero"),
       Label("bail"),
       Local("freq_is_ret", "none"),
       Ret("zero") >>

zl3073x_dpll_set_output_phase_adjust_v2 ==
    << Rd(Direct("output_ctrl"), "synth", "none"),
       Call("_zl3073x_ptp_get_synth_freq_v2", "none", "none"),
       Local("freq_is_zero", "oops"),
       Local("phase_not_a_divisor_v2", "out"),
       Lock,
       Wr(MbMask("out"), "pair", "none"),
       Wr(MbData("out", "PHASE_COMPENSATION"), "data", "none"),
       Wr(MbSem("out"), DPLL_REF_MB_SEM_WR, "none"),
       Poll("zl3073x_dpll_mb_sem_v2", DPLL_REF_MB_SEM_WR, "out"),
       Label("out"),
       Unlock,
       Ret("zero"),
       Label("oops"),
       [k |-> "oops"] >>

(***************************************************************************)
(* Input pin state: status and mode registers, then the priority.          *)
(***************************************************************************)
zl3073x_dpll_ref_status_get ==
    << Rd(Direct("ref_mon_status"), "val", "out"),
       Label("out"),
       Ret("ret") >>

zl3073x_dpll_raw_mode_get ==
    << Rd(Direct("mode_refsel"), "mode", "out"),
       Label("out"),
       Ret("ret") >>

zl3073x_dpll_forced_ref_get ==
    << Rd(Direct("mode_refsel"), "none", "out"),
       Label("out"),
       Ret("ret") >>

zl3073x_dpll_ref_selected_get ==
    << Rd(Direct("lock_refsel_status"), "none", "out"),
       Label("out"),
       Ret("ret") >>

zl3073x_input_pin_state_get ==
    << Call("zl3073x_dpll_ref_status_get", "x", "out"),
       Local("ref_not_qualified", "out"),
       Call("zl3073x_dpll_raw_mode_get", "none", "out"),
       Call("zl3073x_dpll_forced_ref_get", "none", "out"),
       Local("mode_not_auto_lock", "out"),
       Call("zl3073x_dpll_ref_selected_get", "none", "out"),
       Call("zl3073x_dpll_get_priority_ref", "x", "next"),
       Label("out"),
       Ret("ret") >>

(***************************************************************************)
(* The functions by name, and positions in them.                           *)
(***************************************************************************)
Code(f) ==
    CASE f = "_zl3073x_ptp_gettime64" -> _zl3073x_ptp_gettime64
      [] f = "zl3073x_ptp_gettime64" -> zl3073x_ptp_gettime64
      [] f = "_zl3073x_ptp_settime64" -> _zl3073x_ptp_settime64
      [] f = "zl3073x_ptp_settime64" -> zl3073x_ptp_settime64
      [] f = "zl3073x_ptp_wait_sec_rollover" -> zl3073x_ptp_wait_sec_rollover
      [] f = "_zl3073x_ptp_get_synth_freq" -> _zl3073x_ptp_get_synth_freq
      [] f = "zl3073x_ptp_adjphase" -> zl3073x_ptp_adjphase
      [] f = "_zl3073x_ptp_steptime" -> _zl3073x_ptp_steptime
      [] f = "zl3073x_ptp_adjtime" -> zl3073x_ptp_adjtime
      [] f = "zl3073x_ptp_adjfine" -> zl3073x_ptp_adjfine
      [] f = "_zl3073x_ptp_gettime64_v2" -> _zl3073x_ptp_gettime64_v2
      [] f = "zl3073x_ptp_gettime64_v2" -> zl3073x_ptp_gettime64_v2
      [] f = "zl3073x_dpll_get_priority_ref" -> zl3073x_dpll_get_priority_ref
      [] f = "zl3073x_dpll_set_priority_ref" -> zl3073x_dpll_set_priority_ref
      [] f = "zl3073x_dpll_get_priority_ref_v3" -> zl3073x_dpll_get_priority_ref_v3
      [] f = "zl3073x_synth_get" -> zl3073x_synth_get
      [] f = "zl3073x_dpll_get_output_phase_adjust" -> zl3073x_dpll_get_output_phase_adjust
      [] f = "zl3073x_dpll_set_output_phase_adjust" -> zl3073x_dpll_set_output_phase_adjust
      [] f = "zl3073x_dpll_get_output_frequency" -> zl3073x_dpll_get_output_frequency
      [] f = "_zl3073x_ptp_get_synth_freq_v2" -> _zl3073x_ptp_get_synth_freq_v2
      [] f = "zl3073x_dpll_set_output_phase_adjust_v2" ->
            zl3073x_dpll_set_output_phase_adjust_v2
      [] f = "zl3073x_dpll_ref_status_get" -> zl3073x_dpll_ref_status_get
      [] f = "zl3073x_dpll_raw_mode_get" -> zl3073x_dpll_raw_mode_get
      [] f = "zl3073x_dpll_forced_ref_get" -> zl3073x_dpll_forced_ref_get
      [] f = "zl3073x_dpll_ref_selected_get" -> zl3073x_dpll_ref_selected_get
      [] f = "zl3073x_input_pin_state_get" -> zl3073x_input_pin_state_get

\* The first statement at or after position i that is not a label.
RECURSIVE Adv(_, _)
Adv(f, i) == IF Code(f)[i].k = "label" THEN Adv(f, i + 1) ELSE i

\* The statement a goto to label n of f continues with.
Goto(f, n) ==
    Adv(f, CHOOSE j \in 1..Len(Code(f)) :
               Code(f)[j].k = "label" /\ Code(f)[j].n = n)

Running(t) == stack[t] # <<>>
Top(t) == stack[t][Len(stack[t])]
Stmt(t) == Code(Top(t).f)[Top(t).i]
At(t, k) == Running(t) /\ Stmt(t).k = k

\* The position after the current statement: the label the code jumps to
\* when the statement failed and its result is tested, else the next one.
NextIdx(t, e, failed) ==
    IF failed /\ e \notin {"next", "none"}
    THEN Goto(Top(t).f, e)
    ELSE Adv(Top(t).f, Top(t).i + 1)

MoveTo(t, i) == [stack EXCEPT ![t][Len(stack[t])].i = i]

(***************************************************************************)
(* The locals of an operation, with four ghosts:  xerr is the first        *)
(* transport error the operation met, tmo says that one of its polls timed *)
(* out, rolled that its wait for the rollover returned success, and wrote  *)
(* that it has written a register.                                         *)
(***************************************************************************)
IdleRec ==
    [op |-> "none", x |-> 0, n |-> 0, ret |-> 0, synth |-> 0, freq |-> 0,
     ts |-> 0, init_ts |-> 0, val |-> 0, mode |-> 0,
     xerr |-> 0, tmo |-> FALSE, rolled |-> FALSE, wrote |-> FALSE]

\* "ret = v" for a result that is kept; a thrown away result leaves ret.
SetRet(r, e, v) == IF e = "none" THEN r ELSE [r EXCEPT !.ret = v]

NoteError(r, err) == IF r.xerr = 0 THEN [r EXCEPT !.xerr = err] ELSE r

\* The value a return statement returns.
RetVal(r, v) ==
    CASE v = "ret" -> r.ret
      [] v = "zero" -> 0
      [] v = "val" -> r.val
      [] v = "ERANGE" -> -Errno.ERANGE

(***************************************************************************)
(* The device as the driver finds it.                                      *)
(***************************************************************************)
ZL3073X_MAX_OUTPUT_PIN_PAIRS == 10
Synths == {0, 1}
Bit(i) == 2 ^ i

\* The synth an output control register selects (device configuration).
OutputSynth(i) == i % 2

\* DPLL_OUTPUT_CTRL_SYNTH_SEL_GET of the register at DPLL_OUTPUT_CTRL(i):
\* an output control register for i below the number of output pairs,
\* whatever register follows them otherwise.
SynthSelRead(i) ==
    IF i < ZL3073X_MAX_OUTPUT_PIN_PAIRS THEN {OutputSynth(i)} ELSE Synths

\* base * mult * numerator / denominator of a synth (device configuration).
SynthFreqHz(s) == IF s = 0 THEN 1000000000 ELSE 500000000

\* The frequency in the synth mailbox's window, loaded for mask w.
FreqOfWindow(w) ==
    IF \E s \in Synths : Bit(s) = w
    THEN SynthFreqHz(CHOOSE s \in Synths : Bit(s) = w)
    ELSE 0

\* (int)div_u64(PSEC_PER_SEC, freq * 2), for a frequency in whole MHz.
HalfSynthCycle(freq) == 500000 \div (freq \div 1000000)

\* Second generation: u32 freq; div_u64(scaleSecToPicoSec, (freq*2)).  A
\* negative freq stands for the poll's -ETIMEDOUT taken for a frequency:
\* (u32)-110 * 2 is 4294967076 in 32 bits, and 10^12 / 4294967076 is 232.
HalfSynthCycleV2(freq) == IF freq < 0 THEN 232 ELSE HalfSynthCycle(freq)

zl3073x_output_pin_type ==
    << "IN_PHASE", "IN_PHASE", "DIFFERENTIAL", "DIFFERENTIAL", "DIFFERENTIAL",
       "DIFFERENTIAL", "IN_PHASE", "DIVIDED", "DIVIDED", "DIFFERENTIAL" >>

PinType(pin) == zl3073x_output_pin_type[(pin \div 2) + 1]
ZL3073X_P_PIN(pin) == pin % 2 = 0

\* __ffs(mask): the lowest set bit; undefined for 0, where any index of
\* the model's outputs may come out.
RECURSIVE Ffs(_)
Ffs(m) == IF m % 2 = 1 THEN 0 ELSE 1 + Ffs(m \div 2)
FfsOutcomes(m) == IF m = 0 THEN {0, 15} ELSE {Ffs(m)}

\* What a register with a semaphore or operation field reads as.
RegRead(reg) ==
    CASE reg.role = "sem" -> mb_sem[reg.mb]
      [] reg.role = "tod_ctrl" -> tod_ctrl
      [] reg.role = "step_ctrl" -> step_ctrl
      [] reg.role = "tie_ctrl" -> tie_ctrl

\* The values a successful read stores in its destination.
ReadValues(t, s) ==
    CASE s.dst = "none" -> {0}
      [] s.dst = "ts" -> {tod_sec}
      [] s.dst = "synth" ->
            IF s.reg.role = "output_ctrl"
            THEN SynthSelRead(Top(t).a)
            ELSE UNION {SynthSelRead(i) : i \in FfsOutcomes(perout_mask)}
      [] s.dst = "freq" -> {FreqOfWindow(mb_win["synth"])}
      [] s.dst = "val" -> IF s.reg.role = "ref_mon_status" THEN {0, 1} ELSE {0, 15}
      [] s.dst = "mode" -> {ZL3073X_MODE_REFLOCK, ZL3073X_MODE_AUTO_LOCK}

\* What a buffer that a failed read never filled is taken for.
GarbageValues(dst) ==
    CASE dst = "ts" -> {0, MaxSec}
      [] dst = "freq" -> {0, 500000000}
      [] dst = "synth" -> Synths
      [] dst = "val" -> {0, 15}
      [] OTHER -> {0}

Store(r, dst, v) ==
    CASE dst = "none" -> r
      [] dst = "ts" -> [r EXCEPT !.ts = v]
      [] dst = "synth" -> [r EXCEPT !.synth = v]
      [] dst = "freq" -> [r EXCEPT !.freq = v]
      [] dst = "val" -> [r EXCEPT !.val = v]
      [] dst = "mode" -> [r EXCEPT !.mode = v]

\* The mask a select writes.
MaskVal(t, v) ==
    CASE v = "synth" -> Bit(th[t].synth)
      [] v = "pair" -> Bit(th[t].x \div 2)
      [] v = "dpll" -> Bit(0)

\* The value of a call's argument.
ArgVal(t, a) ==
    CASE a = "none" -> 0
      [] a = "x" -> th[t].x
      [] a = "ZL3073X_TOD_CTRL_CMD_READ" -> ZL3073X_TOD_CTRL_CMD_READ
      [] a = "ZL3073X_TOD_CTRL_CMD_READ_NEXT_1HZ" -> ZL3073X_TOD_CTRL_CMD_READ_NEXT_1HZ
      [] a = "ZL3073X_TOD_CTRL_CMD_WRITE_NEXT_1HZ" -> ZL3073X_TOD_CTRL_CMD_WRITE_NEXT_1HZ

\* The branches of the code that depend on data: whether the jump is taken.
LocalJumps(r, c) ==
    CASE c = "init_ts_clear" -> FALSE
      [] c = "second_rolled_over" -> r.init_ts # 0 /\ r.init_ts < r.ts
      [] c = "msleep" -> TRUE
      [] c = "delta_below_one_second" ->
            ~(r.n >= NSEC_PER_SEC \/ r.n <= -NSEC_PER_SEC)
      [] c = "scaled_ppm_zero" -> r.n = 0
      [] c = "phase_not_a_divisor" -> (HalfSynthCycle(r.freq) % r.n) # 0
      [] c = "phase_not_a_divisor_v2" -> (HalfSynthCycleV2(r.freq) % r.n) # 0
      [] c = "freq_is_zero" -> r.freq = 0
      [] c = "freq_is_ret" -> FALSE
      [] c = "not_divided_n_pin" ->
            ~(PinType(r.x) = "DIVIDED" /\ ~ZL3073X_P_PIN(r.x))
      [] c = "ref_not_qualified" -> r.val # 0
      [] c = "mode_not_auto_lock" -> r.mode # ZL3073X_MODE_AUTO_LOCK

\* ... and what they assign.
LocalUpdate(r, c) ==
    CASE c = "init_ts_clear" -> [r EXCEPT !.init_ts = 0]
      [] c = "second_rolled_over" ->
            IF r.init_ts = 0 THEN [r EXCEPT !.init_ts = r.ts] ELSE r
      [] c = "freq_is_ret" -> [r EXCEPT !.freq = -Errno.ETIMEDOUT]
      [] OTHER -> r

(***************************************************************************)
(* The operations the kernel can call, with the arguments of the model.    *)
(***************************************************************************)
Refs == {0, 1}
Deltas == {0, NSEC_PER_SEC - 1, NSEC_PER_SEC, -NSEC_PER_SEC}

Op(f, xs, ns) == {[op |-> f, x |-> x, n |-> n] : x \in xs, n \in ns}

TodOps ==
    Op("zl3073x_ptp_gettime64", {0}, {0})
    \cup Op("zl3073x_ptp_settime64", {0}, {0})
    \cup Op("zl3073x_ptp_adjtime", {0}, Deltas)
    \cup Op("zl3073x_ptp_adjphase", {0}, {250})
    \cup Op("zl3073x_ptp_adjfine", {0}, {0, 65536})

OutputOps ==
    Op("zl3073x_dpll_get_output_phase_adjust", {0}, {0})
    \cup Op("zl3073x_dpll_set_output_phase_adjust", {0}, {250, 300})
    \cup Op("zl3073x_dpll_get_output_frequency", {0}, {0})

\* What runs beside them: the frequency of an output of the other synth,
\* and a request to the mailbox whose semaphore the output operations poll.
BesideOutputOps ==
    Op("zl3073x_dpll_get_output_frequency", {15}, {0})
    \cup Op("zl3073x_dpll_set_priority_ref", {0}, {12})

InputOps ==
    Op("zl3073x_input_pin_state_get", Refs, {0})
    \cup Op("zl3073x_dpll_get_priority_ref", Refs, {0})
    \cup Op("zl3073x_dpll_set_priority_ref", Refs, {12})

\* A run is one of these workloads: the operations each thread calls.
Workloads == {"tod", "output", "input", "v2", "v3"}

Generation(w) == CASE w = "v2" -> 2 [] w = "v3" -> 3 [] OTHER -> 1

Calls(w, t) ==
    CASE w = "tod" -> TodOps
      [] w = "output" -> IF t = 1 THEN OutputOps ELSE BesideOutputOps
      [] w = "input" -> InputOps
      [] w = "v2" -> IF t = 1
                     THEN Op("zl3073x_dpll_set_output_phase_adjust_v2", {0}, {250, 300})
                     ELSE Op("zl3073x_ptp_gettime64_v2", {0}, {0})
      [] w = "v3" -> Op("zl3073x_dpll_get_priority_ref_v3", Refs, {0})

(***************************************************************************)
(* Steps of a thread.                                                      *)
(***************************************************************************)
\* A thread that runs no operation calls one.
CallOp(t) ==
    /\ ~Running(t)
    /\ ncalls[t] < MaxCalls
    /\ ncalls' = [ncalls EXCEPT ![t] = @ + 1]
    /\ \E c \in Calls(workload, t) :
          /\ stack' = [stack EXCEPT ![t] = << [f |-> c.op, i |-> Adv(c.op, 1), a |-> 0] >>]
          /\ th' = [th EXCEPT ![t] = [IdleRec EXCEPT !.op = c.op, !.x = c.x, !.n = c.n]]
    /\ UNCHANGED <<workload, lock, mb_mask, mb_sem, mb_win, tod_ctrl, tod_sec,
                   step_ctrl, tie_ctrl, perout_mask, prio, infreq, fcall>>

\* mutex_lock(zl3073x->lock)
ExecLock(t) ==
    /\ At(t, "lock")
    /\ lock = 0
    /\ lock' = t
    /\ stack' = MoveTo(t, NextIdx(t, "next", FALSE))
    /\ UNCHANGED <<workload, ncalls, th, mb_mask, mb_sem, mb_win, tod_ctrl, tod_sec,
                   step_ctrl, tie_ctrl, perout_mask, prio, infreq, fcall>>

\* mutex_unlock(zl3073x->lock); releasing a mutex the thread does not hold
\* is undefined: it may stay with its owner or come free.
ExecUnlock(t) ==
    /\ At(t, "unlock")
    /\ \E l \in (IF lock = t THEN {0} ELSE {0, lock}) : lock' = l
    /\ stack' = MoveTo(t, NextIdx(t, "next", FALSE))
    /\ UNCHANGED <<workload, ncalls, th, mb_mask, mb_sem, mb_win, tod_ctrl, tod_sec,
                   step_ctrl, tie_ctrl, perout_mask, prio, infreq, fcall>>

\* zl3073x_write: the register takes the value, or the bus fails.
ExecWr(t) ==
    /\ At(t, "wr")
    /\ LET s == Stmt(t)
           r == th[t]
           role == s.reg.role
       IN  \E o \in {0} \cup TransportErrors :
              IF o = 0
              THEN /\ mb_mask' = IF role = "mask" /\ s.reg.mb \in Windowed
                                 THEN [mb_mask EXCEPT ![s.reg.mb] = MaskVal(t, s.v)]
                                 ELSE mb_mask
                   /\ mb_sem' = IF role = "sem"
                                THEN [mb_sem EXCEPT ![s.reg.mb] = s.v]
                                ELSE mb_sem
                   /\ tod_ctrl' = IF role = "tod_ctrl"
                                  THEN DPLL_TOD_CTRL_SEM + Top(t).a
                                  ELSE tod_ctrl
                   /\ step_ctrl' = IF role = "step_ctrl" THEN s.v ELSE step_ctrl
                   /\ tie_ctrl' = IF role = "tie_ctrl" THEN s.v ELSE tie_ctrl
                   /\ th' = [th EXCEPT ![t] =
                                SetRet([r EXCEPT !.wrote = TRUE], s.e, 0)]
                   /\ stack' = MoveTo(t, NextIdx(t, s.e, FALSE))
              ELSE /\ UNCHANGED <<mb_mask, mb_sem, tod_ctrl, step_ctrl, tie_ctrl>>
                   /\ th' = [th EXCEPT ![t] = SetRet(NoteError(r, o), s.e, -o)]
                   /\ stack' = MoveTo(t, NextIdx(t, s.e, TRUE))
    /\ UNCHANGED <<workload, ncalls, lock, mb_win, tod_sec, perout_mask, prio, infreq, fcall>>

\* zl3073x_read: the destination takes the register's value, or the bus
\* fails; a buffer the code uses without testing the result is then
\* uninitialised.
ExecRd(t) ==
    /\ At(t, "rd")
    /\ LET s == Stmt(t)
           r == th[t]
       IN  \E o \in {0} \cup TransportErrors :
              IF o = 0
              THEN \E v \in ReadValues(t, s) :
                      /\ th' = [th EXCEPT ![t] = SetRet(Store(r, s.dst, v), s.e, 0)]
                      /\ stack' = MoveTo(t, NextIdx(t, s.e, FALSE))
              ELSE \E v \in (IF s.e \in {"none", "next"}
                             THEN GarbageValues(s.dst) ELSE {0}) :
                      /\ th' = [th EXCEPT ![t] =
                                   SetRet(NoteError(IF s.e \in {"none", "next"}
                                                    THEN Store(r, s.dst, v) ELSE r, o),
                                          s.e, -o)]
                      /\ stack' = MoveTo(t, NextIdx(t, s.e, TRUE))
    /\ UNCHANGED <<workload, ncalls, lock, mb_mask, mb_sem, mb_win, tod_ctrl, tod_sec,
                   step_ctrl, tie_ctrl, perout_mask, prio, infreq, fcall>>

\* readx_poll_timeout_atomic(fn, ..., val, !(mask & val), ...): fn's result
\* is tested against the mask whatever it is.  A read that succeeds shows
\* the register; a read that fails shows the low bits of the negative error
\* code (first generation) or of an unassigned u8 (later generations).  The
\* poll returns 0 once the masked bits show clear and -ETIMEDOUT when they
\* still show set at the deadline.
ExecPoll(t) ==
    /\ At(t, "poll")
    /\ LET s == Stmt(t)
           rdr == SemReaders[s.fn]
           r == th[t]
       IN  \E o \in {0} \cup TransportErrors :
           \E b \in (IF o = 0 THEN {RegRead(rdr.reg)}
                     ELSE IF rdr.fail = "errno" THEN {LowByte(-o)}
                     ELSE UninitBytes) :
           \E deadline \in BOOLEAN :
              LET r1 == IF o = 0 THEN r ELSE NoteError(r, o)
              IN  IF BitAnd(s.mask, b) = 0
                  THEN /\ deadline = FALSE
                       /\ th' = [th EXCEPT ![t] = SetRet(r1, s.e, 0)]
                       /\ stack' = MoveTo(t, NextIdx(t, s.e, FALSE))
                  ELSE IF deadline
                  THEN /\ th' = [th EXCEPT ![t] =
                                    SetRet([r1 EXCEPT !.tmo = TRUE], s.e, -Errno.ETIMEDOUT)]
                       /\ stack' = MoveTo(t, NextIdx(t, s.e, TRUE))
                  ELSE /\ o # 0
                       /\ th' = [th EXCEPT ![t] = r1]
                       /\ UNCHANGED stack
    /\ UNCHANGED <<workload, ncalls, lock, mb_mask, mb_sem, mb_win, tod_ctrl, tod_sec,
                   step_ctrl, tie_ctrl, perout_mask, prio, infreq, fcall>>

\* A call of another function of the driver.
ExecCall(t) ==
    /\ At(t, "call")
    /\ LET s == Stmt(t)
       IN  stack' = [stack EXCEPT ![t] =
                        Append(@, [f |-> s.f, i |-> Adv(s.f, 1), a |-> ArgVal(t, s.a)])]
    /\ UNCHANGED <<workload, ncalls, lock, th, mb_mask, mb_sem, mb_win, tod_ctrl, tod_sec,
                   step_ctrl, tie_ctrl, perout_mask, prio, infreq, fcall>>

\* The locals a function leaves behind when it returns.
Leave(r, f, v) ==
    IF f = "zl3073x_ptp_wait_sec_rollover"
    THEN [r EXCEPT !.ts = 0, !.init_ts = 0, !.rolled = (v = 0)]
    ELSE r

\* A return: to the caller, which keeps and tests the result as its call
\* statement says, or to the kernel, which ends the operation.
ExecRet(t) ==
    /\ At(t, "ret")
    /\ LET n == Len(stack[t])
           v == RetVal(th[t], Stmt(t).v)
       IN  IF n = 1
           THEN /\ stack' = [stack EXCEPT ![t] = << >>]
                /\ th' = [th EXCEPT ![t] = IdleRec]
           ELSE LET caller == stack[t][n - 1]
                    cs == Code(caller.f)[caller.i]
                    to == IF v # 0 /\ cs.e \notin {"next", "none"}
                          THEN Goto(caller.f, cs.e)
                          ELSE Adv(caller.f, caller.i + 1)
                IN  /\ stack' = [stack EXCEPT ![t] =
                                    Append(SubSeq(@, 1, n - 2), [caller EXCEPT !.i = to])]
                    /\ th' = [th EXCEPT ![t] = SetRet(Leave(@, Top(t).f, v), cs.e, v)]
    /\ UNCHANGED <<workload, ncalls, lock, mb_mask, mb_sem, mb_win, tod_ctrl, tod_sec,
                   step_ctrl, tie_ctrl, perout_mask, prio, infreq, fcall>>

\* A test or an assignment on locals.
ExecLocal(t) ==
    /\ At(t, "local")
    /\ LET s == Stmt(t)
       IN  /\ th' = [th EXCEPT ![t] = LocalUpdate(@, s.c)]
           /\ stack' = MoveTo(t, NextIdx(t, s.to, LocalJumps(th[t], s.c)))
    /\ UNCHANGED <<workload, ncalls, lock, mb_mask, mb_sem, mb_win, tod_ctrl, tod_sec,
                   step_ctrl, tie_ctrl, perout_mask, prio, infreq, fcall>>

(***************************************************************************)
(* Steps of the device.                                                    *)
(***************************************************************************)
\* A mailbox carries out the request in its semaphore register: a read
\* request loads the window with the data of the selected target.
HwMailbox(m) ==
    /\ mb_sem[m] # 0
    /\ mb_sem' = [mb_sem EXCEPT ![m] = 0]
    /\ mb_win' = IF BitAnd(mb_sem[m], DPLL_REF_MB_SEM_RD) # 0 /\ m \in Windowed
                 THEN [mb_win EXCEPT ![m] = mb_mask[m]]
                 ELSE mb_win
    /\ UNCHANGED <<workload, ncalls, lock, stack, th, mb_mask, tod_ctrl, tod_sec,
                   step_ctrl, tie_ctrl, perout_mask, prio, infreq, fcall>>

\* The time of day command completes and the semaphore bit clears.  A read
\* command latches the device's time, which never runs backwards, into the
\* seconds register.
HwTod ==
    /\ tod_ctrl # 0
    /\ tod_ctrl' = 0
    /\ \E s \in tod_sec..MaxSec :
          tod_sec' = IF tod_ctrl - DPLL_TOD_CTRL_SEM
                           \in {ZL3073X_TOD_CTRL_CMD_READ, ZL3073X_TOD_CTRL_CMD_READ_NEXT_1HZ}
                     THEN s ELSE tod_sec
    /\ UNCHANGED <<workload, ncalls, lock, stack, th, mb_mask, mb_sem, mb_win,
                   step_ctrl, tie_ctrl, perout_mask, prio, infreq, fcall>>

\* The phase step completes.
HwStep ==
    /\ step_ctrl # 0
    /\ step_ctrl' = 0
    /\ UNCHANGED <<workload, ncalls, lock, stack, th, mb_mask, mb_sem, mb_win, tod_ctrl,
                   tod_sec, tie_ctrl, perout_mask, prio, infreq, fcall>>

\* The TIE write completes.
HwTie ==
    /\ tie_ctrl # 0
    /\ tie_ctrl' = 0
    /\ UNCHANGED <<workload, ncalls, lock, stack, th, mb_mask, mb_sem, mb_win, tod_ctrl,
                   tod_sec, step_ctrl, perout_mask, prio, infreq, fcall>>

PrioIdle ==
    [byte |-> 0, before |-> 0, call |-> "none", r |-> 0, p |-> 0, ret |-> 0,
     gr |-> 0, got |-> 0]
FreqIdle ==
    [regs |-> [base |-> <<0, 0>>, mult |-> <<0, 0>>, num |-> <<0, 0>>, den |-> <<0, 0>>],
     call |-> "none", f |-> 0, sret |-> 0, writes |-> 0, ret |-> 0, got |-> 0]
FnIdle == [area |-> "none"]

\* The driver loaded and no operation called yet.
Loaded ==
    /\ ncalls = [t \in Threads |-> 0]
    /\ lock = 0
    /\ stack = [t \in Threads |-> << >>]
    /\ th = [t \in Threads |-> IdleRec]
    /\ mb_mask = [m \in Windowed |-> 0]
    /\ mb_sem = [m \in Mailboxes |-> 0]
    /\ mb_win = [m \in Windowed |-> 0]
    /\ tod_ctrl = 0
    /\ tod_sec = 0
    /\ step_ctrl = 0
    /\ tie_ctrl = 0
    /\ perout_mask \in (IF workload = "tod" THEN {0, 1} ELSE {0})

Init ==
    /\ workload \in Workloads
    /\ Loaded
    /\ prio = PrioIdle
    /\ infreq = FreqIdle
    /\ fcall = FnIdle

\* A call, a return and a test touch nothing but the thread's own locals:
\* such a step takes no time, so neither another thread nor the device
\* moves while a thread stands at one.
AtLocalStep(t) == Running(t) /\ Stmt(t).k \in {"call", "ret", "local"}
Turn(t) == \A u \in Threads \ {t} : ~AtLocalStep(u)
DeviceTurn == \A u \in Threads : ~AtLocalStep(u)

Next ==
    \/ \E t \in Threads : Turn(t) /\ CallOp(t)
    \/ \E t \in Threads : Turn(t) /\ ExecLock(t)
    \/ \E t \in Threads : Turn(t) /\ ExecUnlock(t)
    \/ \E t \in Threads : Turn(t) /\ ExecWr(t)
    \/ \E t \in Threads : Turn(t) /\ ExecRd(t)
    \/ \E t \in Threads : Turn(t) /\ ExecPoll(t)
    \/ \E t \in Threads : ExecCall(t)
    \/ \E t \in Threads : ExecRet(t)
    \/ \E t \in Threads : ExecLocal(t)
    \/ \E m \in Mailboxes : DeviceTurn /\ HwMailbox(m)
    \/ DeviceTurn /\ HwTod
    \/ DeviceTurn /\ HwStep
    \/ DeviceTurn /\ HwTie

Spec == Init /\ [][Next]_vars

(***************************************************************************)
(* The time of day workload under fair scheduling: a thread that can step  *)
(* does, and the device completes the command it was given.  Nothing makes *)
(* the device's seconds advance.                                           *)
(***************************************************************************)
ThreadStep(t) ==
    \/ Turn(t) /\ (ExecLock(t) \/ ExecUnlock(t) \/ ExecWr(t) \/ ExecRd(t) \/ ExecPoll(t))
    \/ ExecCall(t) \/ ExecRet(t) \/ ExecLocal(t)

DeviceStep ==
    DeviceTurn /\ (HwTod \/ HwStep \/ HwTie \/ \E m \in Mailboxes : HwMailbox(m))

InitTod ==
    /\ workload = "tod"
    /\ Loaded
    /\ prio = PrioIdle
    /\ infreq = FreqIdle
    /\ fcall = FnIdle

FairSpec ==
    /\ InitTod
    /\ [][Next]_vars
    /\ \A t \in Threads : WF_vars(ThreadStep(t))
    /\ WF_vars(DeviceStep)

(***************************************************************************)
(* The packed priority byte of a pair of references, with the bus and the  *)
(* device answering: what a set leaves in it and what a get returns.       *)
(***************************************************************************)
DPLL_REF_PRIORITY_GET_UPPER(data) == BitAnd(data, 240) \div 16
DPLL_REF_PRIORITY_GET_LOWER(data) == BitAnd(data, 15)
DPLL_REF_PRIORITY_GET(data, refId) ==
    IF refId % 2 = 0 THEN DPLL_REF_PRIORITY_GET_LOWER(data)
    ELSE DPLL_REF_PRIORITY_GET_UPPER(data)
DPLL_REF_PRIORITY_SET_LOWER(data, value) ==
    BitOr(BitAnd(data, 240), BitAnd(value, 15))
DPLL_REF_PRIORITY_SET_UPPER(data, value) ==
    BitOr(BitAnd(data, 15), BitAnd(value, 15) * 16)
DPLL_REF_PRIORITY_SET(data, refId, value) ==
    IF refId % 2 = 0 THEN DPLL_REF_PRIORITY_SET_LOWER(data, value)
    ELSE DPLL_REF_PRIORITY_SET_UPPER(data, value)

\* Third generation; the result is stored in a u8.
DPLL_SET_PRIORITY_REFP(current_priority, refp) ==
    BitOr(BitAnd(current_priority, 240), BitAnd(refp, 15))

Bytes == 0..255
PriorityArgs == 0..16

\* zl3073x_dpll_set_priority_ref(refId, new_priority), first generation.
PrioSetRef(r, p) ==
    /\ Generation(workload) = 1
    /\ prio' = [byte |-> DPLL_REF_PRIORITY_SET(prio.byte, r, p), before |-> prio.byte,
                call |-> "set", r |-> r, p |-> p, ret |-> 0, gr |-> 0, got |-> 0]
    /\ UNCHANGED <<workload, ncalls, lock, stack, th, mb_mask, mb_sem, mb_win, tod_ctrl,
                   tod_sec, step_ctrl, tie_ctrl, perout_mask, infreq, fcall>>

\* zl3073x_dpll_set_priority_refp(refp), third generation: the priority of
\* the reference in the lower nibble.  The value combined with the byte is
\* the local new_priority, which nothing has assigned.
PrioSetRefp(p) ==
    /\ Generation(workload) = 3
    /\ IF p > 15
       THEN prio' = [prio EXCEPT !.before = prio.byte, !.call = "rejected", !.r = 0,
                                 !.p = p, !.ret = -Errno.EINVAL, !.gr = 0, !.got = 0]
       ELSE \E new_priority \in UninitBytes :
               prio' = [byte |-> DPLL_SET_PRIORITY_REFP(prio.byte, new_priority),
                        before |-> prio.byte, call |-> "set", r |-> 0, p |-> p,
                        ret |-> 0, gr |-> 0, got |-> 0]
    /\ UNCHANGED <<workload, ncalls, lock, stack, th, mb_mask, mb_sem, mb_win, tod_ctrl,
                   tod_sec, step_ctrl, tie_ctrl, perout_mask, infreq, fcall>>

\* zl3073x_dpll_get_priority_ref(refId); "get" is a get that follows a set.
PrioGetRef(r) ==
    /\ prio' = [prio EXCEPT !.call = IF prio.call \in {"set", "get"} THEN "get" ELSE "read",
                            !.gr = r,
                            !.got = DPLL_REF_PRIORITY_GET(prio.byte, r),
                            !.ret = 0]
    /\ UNCHANGED <<workload, ncalls, lock, stack, th, mb_mask, mb_sem, mb_win, tod_ctrl,
                   tod_sec, step_ctrl, tie_ctrl, perout_mask, infreq, fcall>>

InitPrio ==
    /\ workload \in {"input", "v3"}
    /\ Loaded
    /\ prio \in {[PrioIdle EXCEPT !.byte = b] : b \in Bytes}
    /\ infreq = FreqIdle
    /\ fcall = FnIdle

NextPrio ==
    \/ \E r \in Refs, p \in PriorityArgs : PrioSetRef(r, p)
    \/ \E p \in PriorityArgs : PrioSetRefp(p)
    \/ \E r \in Refs : PrioGetRef(r)

SpecPrio == InitPrio /\ [][NextPrio]_vars

(***************************************************************************)
(* The input frequency of a reference, with the device answering: the four *)
(* 16-bit registers a set writes and what a get computes from them.        *)
(***************************************************************************)
ZL3073X_INPUT_FREQ ==
    {1, 25, 100, 1000, 10000000, 25000000, 62500000, 78125000, 100000000}

\* The lookup table of zl3073x_dpll_set_input_frequency (u32 locals).
InputFreqTable(f) ==
    CASE f = 1 -> [base |-> 1, mult |-> 1, num |-> 1, den |-> 1]
      [] f = 25 -> [base |-> 1, mult |-> 25, num |-> 1, den |-> 1]
      [] f = 100 -> [base |-> 1, mult |-> 100, num |-> 1, den |-> 1]
      [] f = 1000 -> [base |-> 1, mult |-> 1000, num |-> 1, den |-> 1]
      [] f = 10000000 -> [base |-> 10000, mult |-> 1000, num |-> 1, den |-> 1]
      [] f = 25000000 -> [base |-> 25000, mult |-> 1000, num |-> 1, den |-> 1]
      [] f = 62500000 -> [base |-> 20000, mult |-> 3125, num |-> 1, den |-> 1]
      [] f = 78125000 -> [base |-> 125000, mult |-> 625, num |-> 1, den |-> 1]
      [] f = 100000000 -> [base |-> 20000, mult |-> 5000, num |-> 1, den |-> 1]

\* buf[0] = (u8)(v >> 0); buf[1] = (u8)(v >> 8);
ToBuf(v) == << v % 256, (v \div 256) % 256 >>

\* zl3073x_swap(buf, count): the bytes in reverse order.
zl3073x_swap(buf) == [i \in 1..Len(buf) |-> buf[Len(buf) - i + 1]]

\* (buf[0] << 8) | (buf[1] << 0)
FromBuf(buf) == BitOr(buf[1] * 256, buf[2])

FreqFields == << "base", "mult", "num", "den" >>

\* The registers after the first k data writes of a set of frequency f.
RegsWritten(regs, f, k) ==
    [n \in DOMAIN regs |->
        IF \E j \in 1..k : FreqFields[j] = n
        THEN zl3073x_swap(ToBuf(InputFreqTable(f)[n]))
        ELSE regs[n]]

FreqArgs == ZL3073X_INPUT_FREQ \cup {0, 2, 78125001}

\* zl3073x_dpll_set_input_frequency(refId, frequency): a frequency outside
\* the table is refused; otherwise the registers are written in order until
\* the bus fails (k of the four data writes made) or all are written.
FreqSet(f) ==
    /\ infreq.call # "oops"
    /\ IF f \notin ZL3073X_INPUT_FREQ
       THEN infreq' = [infreq EXCEPT !.call = "set", !.f = f, !.writes = 0,
                                     !.sret = -Errno.EOPNOTSUPP,
                                     !.ret = -Errno.EOPNOTSUPP, !.got = 0]
       ELSE \E k \in 0..4 : \E o \in TransportErrors :
               LET r == IF k = 4 THEN 0 ELSE -o
               IN  infreq' = [regs |-> RegsWritten(infreq.regs, f, k), call |-> "set",
                              f |-> f, sret |-> r, writes |-> k, ret |-> r, got |-> 0]
    /\ UNCHANGED <<workload, ncalls, lock, stack, th, mb_mask, mb_sem, mb_win, tod_ctrl,
                   tod_sec, step_ctrl, tie_ctrl, perout_mask, prio, fcall>>

\* zl3073x_dpll_get_input_frequency(refId): the product of the registers
\* (u32; the values of the table stay below 2^31) looked up in the table.
\* A denominator of 0 is a division by zero, which ends the thread.
FreqGet ==
    /\ infreq.call # "oops"
    /\ LET baseFreq == FromBuf(infreq.regs.base)
           multiplier == FromBuf(infreq.regs.mult)
           numerator == FromBuf(infreq.regs.num)
           denominator == FromBuf(infreq.regs.den)
       IN  IF denominator = 0
           THEN infreq' = [infreq EXCEPT !.call = "oops"]
           ELSE LET inputFreq == (baseFreq * multiplier * numerator) \div denominator
                IN  infreq' = [infreq EXCEPT
                                  !.call = "get",
                                  !.ret = IF inputFreq \in ZL3073X_INPUT_FREQ
                                          THEN 0 ELSE -Errno.EOPNOTSUPP,
                                  !.got = IF inputFreq \in ZL3073X_INPUT_FREQ
                                          THEN inputFreq ELSE 0]
    /\ UNCHANGED <<workload, ncalls, lock, stack, th, mb_mask, mb_sem, mb_win, tod_ctrl,
                   tod_sec, step_ctrl, tie_ctrl, perout_mask, prio, fcall>>

InitFreq ==
    /\ workload = "input"
    /\ Loaded
    /\ prio = PrioIdle
    /\ infreq = FreqIdle
    /\ fcall = FnIdle

NextFreq ==
    \/ \E f \in FreqArgs : FreqSet(f)
    \/ FreqGet

SpecFreq == InitFreq /\ [][NextFreq]_vars

(***************************************************************************)
(* Function-level specifications share what follows: every variable but    *)
(* fcall stays as the loaded driver left it, and C's integer division and     *)
(* remainder truncate towards zero.                                        *)
(***************************************************************************)
Others == <<workload, ncalls, lock, stack, th, mb_mask, mb_sem, mb_win, tod_ctrl,
            tod_sec, step_ctrl, tie_ctrl, perout_mask, prio, infreq>>

Quiet == Loaded /\ prio = PrioIdle /\ infreq = FreqIdle

Abs(a) == IF a < 0 THEN -a ELSE a
CDiv(a, b) == IF (a < 0) = (b < 0) THEN Abs(a) \div Abs(b) ELSE -(Abs(a) \div Abs(b))
CMod(a, b) == a - b * CDiv(a, b)

(***************************************************************************)
(* Output phase compensation: zl3073x_dpll_set_output_phase_adjust and     *)
(* zl3073x_dpll_get_output_phase_adjust on one output, with every bus      *)
(* access succeeding.  fcall.reg is DPLL_OUTPUT_PHASE_COMPENSATION_REG of the *)
(* output as a signed number: the set fills buf[0..3] low byte first and   *)
(* zl3073x_write reverses the buffer, the get reads it high byte first, so *)
(* both sides agree on the number.                                         *)
(***************************************************************************)
PhaseArgs == {-1000, -500, -250, 0, 1, 250, 300, 500, 1000, 1500, 2000}
PhaseRegs == {-2, -1, 0, 1, 3}
\* *phaseAdj is the caller's variable, which the caller did not assign.
PhaseGarbage == {0, 12345}

PhaseSet(v) ==
    /\ fcall.call # "oops"
    /\ \/ /\ v = 0                   \* halfSynthCycle % 0: undefined, a trap
          /\ fcall' = [fcall EXCEPT !.call = "oops", !.v = v]
       \/ /\ v = 0                   \* ... or a remainder that is not 0
          /\ fcall' = [fcall EXCEPT !.call = "set", !.v = v, !.sret = -Errno.ERANGE,
                              !.wrote = FALSE]
       \/ /\ v # 0
          /\ CMod(fcall.h, v) # 0
          /\ fcall' = [fcall EXCEPT !.call = "set", !.v = v, !.sret = -Errno.ERANGE,
                              !.wrote = FALSE]
       \/ /\ v # 0
          /\ CMod(fcall.h, v) = 0
          /\ fcall' = [fcall EXCEPT !.call = "set", !.v = v, !.sret = 0, !.wrote = TRUE,
                              !.reg = -CDiv(v, fcall.h)]
    /\ UNCHANGED Others

PhaseGet ==
    /\ fcall.call # "oops"
    /\ \E garbage \in PhaseGarbage :
          fcall' = [fcall EXCEPT !.call = IF fcall.call \in {"set", "get"} THEN "get" ELSE "read",
                           !.ret = 0,
                           !.got = IF fcall.reg # 0 THEN -(fcall.reg * fcall.h) ELSE garbage]
    /\ UNCHANGED Others

InitPhase ==
    /\ workload = "output"
    /\ Quiet
    /\ \E h \in {HalfSynthCycle(SynthFreqHz(s)) : s \in Synths}, reg \in PhaseRegs :
          fcall = [area |-> "phase", h |-> h, reg |-> reg, call |-> "none", v |-> 0,
                sret |-> 0, wrote |-> FALSE, ret |-> 0, got |-> 0]

NextPhase ==
    \/ \E v \in PhaseArgs : PhaseSet(v)
    \/ PhaseGet

SpecPhase == InitPhase /\ [][NextPhase]_vars

(***************************************************************************)
(* The frequency computation of _zl3073x_ptp_get_synth_freq on the four    *)
(* buffers read from the synth mailbox.  Numbers wider than TLC's integers *)
(* are sequences of bytes, lowest first; an operation on a sequence of n   *)
(* bytes is arithmetic modulo 2^(8n).                                      *)
(***************************************************************************)
RECURSIVE Limbs(_, _)
Limbs(n, k) == IF k = 0 THEN << >> ELSE <<n % 256>> \o Limbs(n \div 256, k - 1)

RECURSIVE Reverse(_)
Reverse(q) == IF q = << >> THEN << >> ELSE Append(Reverse(Tail(q)), Head(q))

\* x * m for a 16 bit m, in the width of x (the carry out of it is lost).
RECURSIVE MulSmall(_, _, _)
MulSmall(x, m, carry) ==
    IF x = << >> THEN << >>
    ELSE LET p == Head(x) * m + carry
         IN  <<p % 256>> \o MulSmall(Tail(x), m, p \div 256)

\* x / d for a 16 bit d that is not 0, rem being carried down from above.
RECURSIVE DivSmall(_, _, _)
DivSmall(x, d, rem) ==
    IF x = << >> THEN << >>
    ELSE LET n == Len(x)
             cur == rem * 256 + x[n]
         IN  Append(DivSmall(SubSeq(x, 1, n - 1), d, cur % d), cur \div d)

\* Widen to k bytes.
ZeroExtend(x, k) == x \o [i \in 1..(k - Len(x)) |-> 0]

\* base = buf[0] << 8; base |= buf[1];
U16OfBuf(buf) == buf[1] * 256 + buf[2]
\* mult = buf[0] << 24; mult |= buf[1] << 16; mult |= buf[2] << 8; mult |= buf[3];
U32OfBuf(buf) == Reverse(buf)

\* *synthFreq = base * mult * numerator / denomitor: base and numerator are
\* converted to mult's type, u32, the products and the quotient are u32,
\* and the quotient is widened to the u64 it is stored in.
SynthFreqOfBufs(bbase, bmult, bnum, bden) ==
    LET base == U16OfBuf(bbase)
        mult == U32OfBuf(bmult)
        numerator == U16OfBuf(bnum)
        denomitor == U16OfBuf(bden)
    IN  ZeroExtend(DivSmall(MulSmall(MulSmall(mult, base, 0), numerator, 0),
                            denomitor, 0), 8)

SynthBufs16 == {<<0, 0>>, <<0, 1>>, <<0, 5>>, <<78, 32>>, <<255, 255>>}
SynthBufs32 == {<<0, 0, 0, 1>>, <<0, 0, 19, 136>>, <<0, 0, 195, 80>>,
                <<0, 1, 134, 160>>, <<255, 255, 255, 255>>}

SynthFreqGet ==
    /\ fcall.call # "oops"
    /\ \E bbase \in SynthBufs16, bmult \in SynthBufs32, bnum \in SynthBufs16,
          bden \in SynthBufs16 :
          fcall' = IF U16OfBuf(bden) = 0
                   THEN [fcall EXCEPT !.call = "oops", !.base = bbase, !.mult = bmult,
                                      !.num = bnum, !.den = bden]
                   ELSE [fcall EXCEPT !.call = "freq", !.base = bbase, !.mult = bmult,
                                      !.num = bnum, !.den = bden, !.ret = 0,
                                      !.got = SynthFreqOfBufs(bbase, bmult, bnum, bden)]
    /\ UNCHANGED Others

InitSynthFreq ==
    /\ workload = "output"
    /\ Quiet
    /\ fcall = [area |-> "synth", call |-> "none", base |-> <<0, 0>>,
                mult |-> <<0, 0, 0, 0>>, num |-> <<0, 0>>, den |-> <<0, 0>>,
                ret |-> 0, got |-> Limbs(0, 8)]

SpecSynthFreq == InitSynthFreq /\ [][SynthFreqGet]_vars

(***************************************************************************)
(* The callbacks that compute their answer from a few registers, each as   *)
(* one step from the register contents to the result: fcall.in holds what  *)
(* the registers read and the arguments, fcall.ret what the callback       *)
(* returns and fcall.out what it stored through its result pointer.        *)
(* A behaviour stays within one area of callbacks, chosen at its start.     *)
(* The enums of the kernel's DPLL interface that the code assigns:         *)
(***************************************************************************)
CallbackAreas == {"device", "input_pin", "output_pin", "perout", "output_freq"}
DPLL_LOCK_STATUS == [UNLOCKED |-> 1, LOCKED |-> 2, LOCKED_HO_ACQ |-> 3, HOLDOVER |-> 4]
DPLL_MODE == [MANUAL |-> 1, AUTOMATIC |-> 2]
ZL3073X_MODE == [FREERUN |-> 0, HOLDOVER |-> 1, REFLOCK |-> ZL3073X_MODE_REFLOCK,
                 AUTO_LOCK |-> ZL3073X_MODE_AUTO_LOCK, NCO |-> 4]
ZLS3073X_DPLL_STATE == [FREERUN |-> 0, HOLDOVER |-> 1, FAST_LOCK |-> 2,
                        ACQUIRING |-> 3, LOCK |-> 4]

DPLL_LOCK_REFSEL_LOCK_GET(val) == BitAnd(val, 112) \div 16
DPLL_LOCK_REFSEL_REF_GET(val) == BitAnd(val, 15)
DPLL_MON_STATUS_HO_READY_GET(val) == BitAnd(val, 4) \div 4
DPLL_MODE_REFSEL_MODE_GET(val) == BitAnd(val, 7)
DPLL_MODE_REFSEL_REF_GET(val) == BitAnd(val, 240)

\* Register contents the callbacks are run on: every value of the fields
\* the code extracts, with the bits around them clear and set.
StatusBytes == {b \in Bytes : b % 16 \in {0, 9}}
ModeBytes == {b \in Bytes : b \div 8 \in {0, 5, 31}}

\* The result of the bus accesses of a callback: 0, or the transport error
\* of the first access that failed, after which the callback stores nothing
\* through its result pointer (fcall.out is NotStored then).
BusResults == {0} \cup {-e : e \in TransportErrors}
NotStored == [stored |-> FALSE]

\* The switch of zl3073x_dpll_map_raw_to_manager_lock_status.
locked_without_ho_ready(dpll_status, ho_ready) ==
    CASE dpll_status \in {ZLS3073X_DPLL_STATE.FREERUN, ZLS3073X_DPLL_STATE.FAST_LOCK,
                          ZLS3073X_DPLL_STATE.ACQUIRING} -> DPLL_LOCK_STATUS.UNLOCKED
      [] dpll_status = ZLS3073X_DPLL_STATE.HOLDOVER -> DPLL_LOCK_STATUS.HOLDOVER
      [] dpll_status = ZLS3073X_DPLL_STATE.LOCK -> DPLL_LOCK_STATUS.LOCKED
      [] OTHER -> -Errno.EINVAL

zl3073x_dpll_map_raw_to_manager_lock_status(dpll_status, ho_ready) ==
    CASE dpll_status \in {ZLS3073X_DPLL_STATE.FREERUN, ZLS3073X_DPLL_STATE.FAST_LOCK,
                          ZLS3073X_DPLL_STATE.ACQUIRING} -> DPLL_LOCK_STATUS.UNLOCKED
      [] dpll_status = ZLS3073X_DPLL_STATE.HOLDOVER -> DPLL_LOCK_STATUS.HOLDOVER
      [] dpll_status = ZLS3073X_DPLL_STATE.LOCK ->
            IF ho_ready # 0 THEN DPLL_LOCK_STATUS.LOCKED_HO_ACQ
            ELSE DPLL_LOCK_STATUS.LOCKED
      [] OTHER -> -Errno.EINVAL

\* zl3073x_dpll_lock_status_get: DPLL_LOCK_REFSEL_STATUS is read, then
\* DPLL_MON_STATUS; *status is assigned when both reads succeeded.
zl3073x_dpll_lock_status_get ==
    /\ fcall.area = "device"
    /\ \E dpll_status \in StatusBytes, dpll_mon_status \in {0, 4, 251, 255},
          ret \in BusResults :
          fcall' = [fcall EXCEPT
              !.call = "lock_status_get",
              !.in = [dpll_status |-> dpll_status, dpll_mon_status |-> dpll_mon_status],
              !.ret = ret,
              !.out = IF ret # 0 THEN NotStored
                      ELSE zl3073x_dpll_map_raw_to_manager_lock_status(
                               DPLL_LOCK_REFSEL_LOCK_GET(dpll_status),
                               DPLL_MON_STATUS_HO_READY_GET(dpll_mon_status))]
    /\ UNCHANGED Others

\* The switch of zl3073x_dpll_map_raw_to_manager_mode, which returns 0.
zl3073x_dpll_map_raw_to_manager_mode(raw_mode) ==
    CASE raw_mode \in {ZL3073X_MODE.HOLDOVER, ZL3073X_MODE.REFLOCK} -> DPLL_MODE.MANUAL
      [] raw_mode = ZL3073X_MODE.AUTO_LOCK -> DPLL_MODE.AUTOMATIC
      [] OTHER -> -Errno.EINVAL

zl3073x_dpll_mode_get ==
    /\ fcall.area = "device"
    /\ \E mode \in ModeBytes, ret \in BusResults :
          fcall' = [fcall EXCEPT
              !.call = "mode_get",
              !.in = [mode |-> mode],
              !.ret = ret,
              !.out = IF ret # 0 THEN NotStored
                      ELSE zl3073x_dpll_map_raw_to_manager_mode(
                               DPLL_MODE_REFSEL_MODE_GET(mode))]
    /\ UNCHANGED Others

DPLL_PIN_STATE == [CONNECTED |-> 1, DISCONNECTED |-> 2, SELECTABLE |-> 3]
DPLL_REF_MON_STATUS_QUALIFIED(val) == val = 0
DPLL_REF_PRIORITY_INVALID == 15

\* The automatic-lock branch of zl3073x_input_pin_state_get.
auto_lock_without_sentinel(ref_index, selected_ref_index, ref_priority) ==
    IF ref_index = selected_ref_index THEN DPLL_PIN_STATE.CONNECTED
    ELSE DPLL_PIN_STATE.SELECTABLE

AutoLockPinState(ref_index, selected_ref_index, ref_priority) ==
    IF ref_index = selected_ref_index THEN DPLL_PIN_STATE.CONNECTED
    ELSE IF ref_priority # DPLL_REF_PRIORITY_INVALID THEN DPLL_PIN_STATE.SELECTABLE
    ELSE DPLL_PIN_STATE.DISCONNECTED

\* zl3073x_input_pin_state_get, from what DPLL_REF_MON_STATUS(ref_index),
\* DPLL_MODE_REFSEL, DPLL_LOCK_REFSEL_STATUS and DPLL_REF_PRIORITY(ref_index)
\* read.  fails says which read failed: the status read, or one of those
\* that follow it when the reference is qualified.
InputPinStateGet ==
    /\ fcall.area = "input_pin"
    /\ \E ref_index \in {0, 1, 9}, ref_status \in {0, 1}, mode \in {1, 2, 18, 146, 3, 19},
          selected_ref \in {64, 65, 73}, priority \in {31, 241, 18},
          fails \in {"none", "status", "later"}, e \in TransportErrors :
          LET unqualified == ~DPLL_REF_MON_STATUS_QUALIFIED(ref_status)
              ret == IF fails = "status" \/ (fails = "later" /\ ~unqualified)
                     THEN -e ELSE 0
              forced_ref_index == DPLL_MODE_REFSEL_REF_GET(mode)
              state ==
                  IF unqualified THEN DPLL_PIN_STATE.DISCONNECTED
                  ELSE IF DPLL_MODE_REFSEL_MODE_GET(mode) = ZL3073X_MODE.AUTO_LOCK
                  THEN AutoLockPinState(ref_index, DPLL_LOCK_REFSEL_REF_GET(selected_ref),
                                        DPLL_REF_PRIORITY_GET(priority, ref_index))
                  ELSE IF ref_index = forced_ref_index THEN DPLL_PIN_STATE.CONNECTED
                  ELSE DPLL_PIN_STATE.DISCONNECTED
          IN  fcall' = [fcall EXCEPT
                  !.call = "input_pin_state_get",
                  !.in = [ref_index |-> ref_index, ref_status |-> ref_status,
                          mode |-> mode, selected_ref |-> selected_ref,
                          priority |-> priority],
                  !.ret = ret,
                  !.out = IF ret # 0 THEN NotStored ELSE state]
    /\ UNCHANGED Others

DPLL_OUTPUT_CTRL_SYNTH_SEL_GET(val) == BitAnd(val, 112) \div 16
DPLL_SYNTH_CTRL_DPLL_SEL_GET(val) == BitAnd(val, 112) \div 16
ZL3073X_MAX_SYNTH == 5
ZL3073X_CHECK_SYNTH_ID(synth) == synth >= 0 /\ synth < ZL3073X_MAX_SYNTH

\* The state zl3073x_output_pin_state_get stores when its reads succeed,
\* from what DPLL_OUTPUT_CTRL(output_index / 2) and DPLL_SYNTH_CTRL(synth)
\* read.
connected_to_any_dpll(dpll_index, output_ctrl, synth_ctrl) ==
    IF ZL3073X_CHECK_SYNTH_ID(DPLL_OUTPUT_CTRL_SYNTH_SEL_GET(output_ctrl))
    THEN DPLL_PIN_STATE.CONNECTED
    ELSE DPLL_PIN_STATE.DISCONNECTED

OutputPinState(dpll_index, output_ctrl, synth_ctrl) ==
    IF /\ ZL3073X_CHECK_SYNTH_ID(DPLL_OUTPUT_CTRL_SYNTH_SEL_GET(output_ctrl))
       /\ DPLL_SYNTH_CTRL_DPLL_SEL_GET(synth_ctrl) = dpll_index
    THEN DPLL_PIN_STATE.CONNECTED
    ELSE DPLL_PIN_STATE.DISCONNECTED

\* zl3073x_output_pin_state_get on DPLL dpll_index: *state is set to
\* disconnected before the first read, so it is stored on the error paths
\* too.  The call is made on fresh register contents, or on those of the
\* call before it (fcall.prev is that call's DPLL and answer then).
OutputPinStateGet ==
    /\ fcall.area = "output_pin"
    /\ \E dpll_index \in {0, 1}, ret \in BusResults :
          \/ \E output_index \in {0, 1, 19}, output_ctrl \in {0, 16, 159, 80},
                synth_ctrl \in {0, 16, 143} :
                fcall' = [area |-> "output_pin", call |-> "output_pin_state_get",
                          in |-> [output_index |-> output_index, dpll_index |-> dpll_index,
                                  output_ctrl |-> output_ctrl, synth_ctrl |-> synth_ctrl,
                                  prev |-> <<>>],
                          ret |-> ret,
                          out |-> IF ret # 0 THEN DPLL_PIN_STATE.DISCONNECTED
                                  ELSE OutputPinState(dpll_index, output_ctrl, synth_ctrl)]
          \/ /\ fcall.call = "output_pin_state_get" /\ fcall.ret = 0
             /\ fcall' = [fcall EXCEPT
                    !.in.dpll_index = dpll_index,
                    !.in.prev = <<fcall.in.dpll_index, fcall.out>>,
                    !.ret = ret,
                    !.out = IF ret # 0 THEN DPLL_PIN_STATE.DISCONNECTED
                            ELSE OutputPinState(dpll_index, fcall.in.output_ctrl,
                                                fcall.in.synth_ctrl)]
    /\ UNCHANGED Others

(***************************************************************************)
(* The callbacks that program an output.  Each is a plan: the bus accesses *)
(* it makes in order when none of them fails (steps), what it returns then *)
(* (ret), and whether it ends in a division by zero (trap).  A call runs   *)
(* the plan to its end or to the first access that fails.  What the        *)
(* registers hold is left out: a test on their content may go either way.  *)
(***************************************************************************)
IsBusStep(st) == st.k \in {"wr", "rd", "poll"}
BusSteps(table) == SelectSeq(table, IsBusStep)
IsWrite(st) == st.k = "wr"

OutputSelect(sem_reader) ==
    << Wr(MbMask("out"), "pair", "out"),
       Wr(MbSem("out"), DPLL_REF_MB_SEM_RD, "out"),
       Poll(sem_reader, DPLL_REF_MB_SEM_RD, "out") >>
OutputCommit(sem_reader) ==
    << Wr(MbSem("out"), DPLL_REF_MB_SEM_WR, "out"),
       Poll(sem_reader, DPLL_REF_MB_SEM_WR, "out") >>
OutputWr(n) == <<Wr(MbData("out", n), "buf", "out")>>
OutputRd(n) == <<Rd(MbData("out", n), "buf", "out")>>

PinFound(pin) == pin # -1 /\ pin < 2 * ZL3073X_MAX_OUTPUT_PIN_PAIRS

zl3073x_ptp_perout_disable(rq, mask) ==
    IF ~PinFound(rq.pin)
    THEN [steps |-> << >>, ret |-> -Errno.EINVAL, mask |-> mask, trap |-> FALSE]
    ELSE [steps |-> OutputSelect("zl3073x_ptp_output_mb_sem") \o OutputRd("MODE")
                    \o OutputWr("MODE") \o OutputCommit("zl3073x_ptp_output_mb_sem"),
          ret |-> 0,
          mask |-> BitAnd(mask, 65535 - Bit(rq.pin \div 2)),
          trap |-> FALSE]

zl3073x_ptp_perout_enable(rq, mask) ==
    LET divider == OutputSelect("zl3073x_ptp_output_mb_sem") \o OutputRd("MODE")
                   \o OutputWr("MODE") \o OutputWr("GPO_EN")
                   \o <<Rd(Direct("output_ctrl"), "synth", "out")>>
                   \o BusSteps(_zl3073x_ptp_get_synth_freq) \o OutputWr("DIV")
    IN  IF ~PinFound(rq.pin)
        THEN [steps |-> << >>, ret |-> -Errno.EINVAL, mask |-> mask, trap |-> FALSE]
        ELSE IF rq.duty /\ rq.on_time[1] # 0
        THEN [steps |-> divider, ret |-> -Errno.EINVAL, mask |-> mask, trap |-> FALSE]
        ELSE IF rq.duty /\ rq.on_time[2] = 0   \* NSEC_PER_SEC / perout->on.nsec
        THEN [steps |-> divider, ret |-> 0, mask |-> mask, trap |-> TRUE]
        ELSE [steps |-> divider \o (IF rq.duty THEN OutputWr("WIDTH") ELSE << >>)
                        \o OutputCommit("zl3073x_ptp_output_mb_sem"),
              ret |-> 0,
              mask |-> BitOr(mask, Bit(rq.pin \div 2)),
              trap |-> FALSE]

enable_any_period(rq, mask) ==
    IF rq.type # "PTP_CLK_REQ_PEROUT"
    THEN [steps |-> << >>, ret |-> -Errno.EOPNOTSUPP, mask |-> mask, trap |-> FALSE]
    ELSE IF rq.on = 0 THEN zl3073x_ptp_perout_disable(rq, mask)
    ELSE zl3073x_ptp_perout_enable(rq, mask)

zl3073x_ptp_enable(rq, mask) ==
    IF rq.type # "PTP_CLK_REQ_PEROUT"
    THEN [steps |-> << >>, ret |-> -Errno.EOPNOTSUPP, mask |-> mask, trap |-> FALSE]
    ELSE IF rq.on = 0 THEN zl3073x_ptp_perout_disable(rq, mask)
    ELSE IF rq.start_nsec # 0 \/ rq.period[1] # 1 \/ rq.period[2] # 0
    THEN [steps |-> << >>, ret |-> -Errno.ERANGE, mask |-> mask, trap |-> FALSE]
    ELSE zl3073x_ptp_perout_enable(rq, mask)

\* struct ptp_clock_request, with the pin ptp_find_pin finds for its index
\* and duty standing for PTP_PEROUT_DUTY_CYCLE in its flags.
PeroutRequests ==
    [type : {"PTP_CLK_REQ_PEROUT"}, on : {0, 1}, pin : {-1, 1, 2, 20},
     start_nsec : {0, 1}, period : {<<1, 0>>, <<0, 5>>, <<2, 0>>},
     duty : {FALSE}, on_time : {<<0, 0>>}]
    \cup
    [type : {"PTP_CLK_REQ_PEROUT"}, on : {1}, pin : {1}, start_nsec : {0},
     period : {<<1, 0>>, <<0, 5>>}, duty : {TRUE},
     on_time : {<<0, 500000000>>, <<1, 0>>, <<0, 0>>}]
    \cup
    [type : {"PTP_CLK_REQ_EXTTS"}, on : {1}, pin : {1}, start_nsec : {0},
     period : {<<1, 0>>}, duty : {FALSE}, on_time : {<<0, 0>>}]

\* A plan run to its end (n = Len(plan.steps)) or to its access n + 1,
\* which fails with e, a poll with a timeout: what the call returns and
\* the registers it wrote.
RunPlan(plan, n, e) ==
    LET done == n = Len(plan.steps)
        writes == SelectSeq(SubSeq(plan.steps, 1, n), IsWrite)
    IN  [done |-> done,
         ret |-> IF done THEN plan.ret
                 ELSE IF plan.steps[n + 1].k = "poll" THEN -Errno.ETIMEDOUT
                 ELSE -e,
         wrote |-> [i \in 1..Len(writes) |-> writes[i].reg]]

PtpEnable ==
    /\ fcall.area = "perout" /\ fcall.call # "oops"
    /\ \E rq \in PeroutRequests, e \in TransportErrors :
          LET plan == zl3073x_ptp_enable(rq, perout_mask)
          IN  \E n \in 0..Len(plan.steps) :
                 LET run == RunPlan(plan, n, e)
                 IN  /\ fcall' = [area |-> "perout",
                                  call |-> IF run.done /\ plan.trap THEN "oops"
                                           ELSE "ptp_enable",
                                  in |-> [rq |-> rq, mask |-> perout_mask,
                                          done |-> run.done],
                                  ret |-> run.ret, out |-> run.wrote]
                     /\ perout_mask' = IF run.done /\ ~plan.trap THEN plan.mask
                                       ELSE perout_mask
    /\ UNCHANGED <<workload, ncalls, lock, stack, th, mb_mask, mb_sem, mb_win, tod_ctrl,
                   tod_sec, step_ctrl, tie_ctrl, prio, infreq>>

\* struct dpll_pin_frequency output_freq_range_ptp[], each range one value.
output_freq_range_ptp == {1, 25, 100, 1000, 10000000, 25000000}

\* greater is how the DPLL_OUTPUTP_GREATER_THAN_OUTPUTN test of a divided
\* pin comes out; the dividers read are taken not to be 0.
zl3073x_dpll_set_output_frequency(outputIndex, frequency, greater) ==
    LET synth == <<Rd(Direct("output_ctrl"), "synth", "ret")>>
                 \o BusSteps(_zl3073x_ptp_get_synth_freq)
        current == synth \o OutputSelect("zl3073x_dpll_mb_sem") \o OutputRd("DIV")
        esync == OutputWr("ESYNC_DIV") \o OutputWr("ESYNC_PULSE_WIDTH")
        commit == OutputCommit("zl3073x_dpll_mb_sem")
    IN  IF frequency \notin output_freq_range_ptp
        THEN [steps |-> synth, ret |-> -Errno.EINVAL]
        ELSE IF PinType(outputIndex) = "DIVIDED"
        THEN IF ~greater
             THEN [steps |-> current \o OutputRd("ESYNC_DIV"), ret |-> -Errno.EINVAL]
             ELSE IF ZL3073X_P_PIN(outputIndex)
             THEN [steps |-> current \o OutputRd("ESYNC_DIV") \o OutputWr("DIV")
                             \o OutputWr("WIDTH") \o esync \o commit,
                   ret |-> 0]
             ELSE [steps |-> current \o OutputRd("ESYNC_DIV") \o esync \o commit,
                   ret |-> 0]
        ELSE [steps |-> current \o OutputWr("DIV") \o OutputWr("WIDTH") \o commit,
              ret |-> 0]

SetOutputFrequency ==
    /\ fcall.area = "output_freq"
    /\ \E outputIndex \in {0, 4, 14, 15}, frequency \in {25, 1000, 2, 30000000},
          greater \in BOOLEAN, e \in TransportErrors :
          LET plan == zl3073x_dpll_set_output_frequency(outputIndex, frequency, greater)
          IN  \E n \in 0..Len(plan.steps) :
                 LET run == RunPlan(plan, n, e)
                 IN  fcall' = [area |-> "output_freq", call |-> "set_output_frequency",
                               in |-> [outputIndex |-> outputIndex,
                                       frequency |-> frequency, done |-> run.done],
                               ret |-> run.ret, out |-> run.wrote]
    /\ UNCHANGED Others

InitCallbacks ==
    /\ workload = "input"
    /\ Quiet
    /\ \E area \in CallbackAreas :
          fcall = [area |-> area, call |-> "none", in |-> [none |-> 0],
                   ret |-> 0, out |-> NotStored]

NextCallbacks ==
    \/ zl3073x_dpll_lock_status_get
    \/ zl3073x_dpll_mode_get
    \/ InputPinStateGet
    \/ OutputPinStateGet
    \/ PtpEnable
    \/ SetOutputFrequency

SpecCallbacks == InitCallbacks /\ [][NextCallbacks]_vars

(***************************************************************************)
(* Operations taken one call at a time.  fcall.area says which group of    *)
(* operations a run calls, fcall.in holds the arguments and what the       *)
(* device held before the call, fcall.ret what the call returned and       *)
(* fcall.out what it did or left in the device.                            *)
(***************************************************************************)
ZL3073X_IS_INPUT_PIN(pin) == pin >= 20 /\ pin < 30
ZL3073X_REG_MAP_INPUT_PIN_GET(pin) == pin - 20

zl3073x_dpll_phase_offset_get ==
    << Lock,
       Poll("zl3073x_dpll_ref_phase_err_rqst_op", 1, "err"),
       Wr(Direct("meas_idx"), "dpll", "err"),
       Rd(Direct("meas_ctrl"), "none", "err"),
       Wr(Direct("meas_ctrl"), "data", "err"),
       Wr(Direct("ref_phase_err_rqst"), 1, "err"),
       Poll("zl3073x_dpll_ref_phase_err_rqst_op", 1, "err"),
       Rd(Direct("ref_phase_err"), "none", "err"),
       Unlock,
       Ret("zero"),
       Label("err"),
       Unlock,
       Ret("ret") >>

zl3073x_dpll_ffo_get ==
    << Lock,
       Poll("zl3073x_dpll_ref_freq_meas_op", 3, "err"),
       Wr(Direct("meas_ref_freq_ctrl"), "dpll", "err"),
       Wr(Direct("ref_freq_meas_mask"), "ref", "err"),
       Wr(Direct("ref_freq_meas_ctrl"), 3, "err"),
       Poll("zl3073x_dpll_ref_freq_meas_op", 3, "err"),
       Rd(Direct("ref_freq_err"), "none", "err"),
       Unlock,
       Ret("ret"),
       Label("err"),
       Unlock,
       Ret("ret") >>

\* What a function does when nothing fails: its statements up to the first
\* return, the locking and the bus accesses among them.
RECURSIVE MainPath(_)
MainPath(table) ==
    IF table = << >> \/ Head(table).k = "ret" THEN << >>
    ELSE <<Head(table)>> \o MainPath(Tail(table))
IsLockOrBusStep(st) == st.k \in {"lock", "unlock", "wr", "rd", "poll"}
LockedSteps(table) == SelectSeq(MainPath(table), IsLockOrBusStep)

PinCallbacks ==
    {"zl3073x_dpll_pin_phase_offset_get", "zl3073x_dpll_pin_prio_get",
     "zl3073x_dpll_pin_prio_set", "zl3073x_dpll_pin_ffo_get"}

\* The four callbacks with every kind of pin handed to the function that
\* serves input pins.
pin_callback_any_pin(cb, index) ==
    [steps |-> LockedSteps(
                  CASE cb = "zl3073x_dpll_pin_phase_offset_get" ->
                          zl3073x_dpll_phase_offset_get
                    [] cb = "zl3073x_dpll_pin_prio_get" -> zl3073x_dpll_get_priority_ref
                    [] cb = "zl3073x_dpll_pin_prio_set" -> zl3073x_dpll_set_priority_ref
                    [] cb = "zl3073x_dpll_pin_ffo_get" -> zl3073x_dpll_ffo_get),
     ret |-> 0]

\* zl3073x_dpll_pin_phase_offset_get, zl3073x_dpll_pin_prio_get,
\* zl3073x_dpll_pin_prio_set and zl3073x_dpll_pin_ffo_get as plans.
PinCallback(cb, index) ==
    IF ZL3073X_IS_INPUT_PIN(index)
    THEN [steps |-> LockedSteps(
                  CASE cb = "zl3073x_dpll_pin_phase_offset_get" ->
                          zl3073x_dpll_phase_offset_get
                    [] cb = "zl3073x_dpll_pin_prio_get" -> zl3073x_dpll_get_priority_ref
                    [] cb = "zl3073x_dpll_pin_prio_set" -> zl3073x_dpll_set_priority_ref
                    [] cb = "zl3073x_dpll_pin_ffo_get" -> zl3073x_dpll_ffo_get),
          ret |-> 0]
    ELSE [steps |-> << >>, ret |-> -Errno.EOPNOTSUPP]

\* A call of one of them: fcall.out is what it did, in order, up to the
\* access that failed.
PinOp ==
    /\ fcall.area = "pin"
    /\ \E cb \in PinCallbacks, index \in {0, 19, 20, 29}, e \in TransportErrors :
          LET plan == PinCallback(cb, index)
          IN  \E n \in 0..Len(plan.steps) :
                 /\ IF n = Len(plan.steps) THEN TRUE
                    ELSE IsBusStep(plan.steps[n + 1])
                 /\ fcall' = [fcall EXCEPT
                                 !.call = cb,
                                 !.in = [index |-> index, lock |-> lock,
                                         perout_mask |-> perout_mask],
                                 !.ret = RunPlan(plan, n, e).ret,
                                 !.out = SubSeq(plan.steps, 1, n)]
    /\ UNCHANGED Others

(***************************************************************************)
(* zl3073x_ptp_adjfine.  fcall.reg is DPLL_DF_OFFSET of the DPLL, six      *)
(* bytes as the device holds them, highest first.                          *)
(***************************************************************************)
\* x + y + carry in the width of x.
RECURSIVE AddLimbs(_, _, _)
AddLimbs(x, y, carry) ==
    IF x = << >> THEN << >>
    ELSE LET sum == Head(x) + Head(y) + carry
         IN  <<sum % 256>> \o AddLimbs(Tail(x), Tail(y), sum \div 256)

\* ~x + 1
TwosComplement(x) == MulSmall([i \in 1..Len(x) |-> 255 - x[i]], 1, 1)

ZL3073X_1PPM_FORMAT == 281474976

\* dco[0..5] for a scaled_ppm that is not 0, in 64 bit arithmetic.
AdjfineDco(scaled_ppm) ==
    LET high == scaled_ppm \div 65536                \* scaled_ppm_s64 >> 16
        low == scaled_ppm % 65536                    \* 0xffff & scaled_ppm_s64
        fraction == MulSmall(Limbs(ZL3073X_1PPM_FORMAT, 8), low, 0)
        ref == AddLimbs(MulSmall(Limbs(ZL3073X_1PPM_FORMAT, 8), high, 0),
                        SubSeq(fraction, 3, 8) \o <<0, 0>>, 0)
    IN  SubSeq(TwosComplement(ref), 1, 6)

AdjfineArgs == {0, 1, -1, 65535, 65536, -65536, 65537, -100000, 6553600}

Adjfine ==
    /\ fcall.area = "adjfine"
    /\ \E scaled_ppm \in AdjfineArgs, o \in BusResults :
          fcall' = IF scaled_ppm = 0
                   THEN [fcall EXCEPT !.call = "adjfine",
                                      !.in = [scaled_ppm |-> scaled_ppm], !.ret = 0]
                   ELSE [fcall EXCEPT
                            !.call = "adjfine",
                            !.in = [scaled_ppm |-> scaled_ppm],
                            !.ret = o,
                            !.reg = IF o = 0 THEN zl3073x_swap(AdjfineDco(scaled_ppm))
                                    ELSE @]
    /\ UNCHANGED Others

(***************************************************************************)
(* zl3073x_ptp_adjphase.  fcall.reg is DPLL_TIE_DATA of the DPLL, six      *)
(* bytes, highest first; fcall.out are the registers written.              *)
(***************************************************************************)
\* tieData[0..5]: delta % NSEC_PER_SEC times 100000LL, in 64 bit arithmetic
\* (the factor is applied as 1000 * 100).
AdjphaseTieData(delta) ==
    LET delta_sub_sec_in_ns == CMod(delta, NSEC_PER_SEC)
    IN  SubSeq(MulSmall(MulSmall(Limbs(delta_sub_sec_in_ns, 8), 1000, 0), 100, 0), 1, 6)

AdjphaseArgs ==
    {0, 1, -1, 250, -250, 999999999, -999999999, NSEC_PER_SEC, -NSEC_PER_SEC,
     1500000000, -1500000000}

Adjphase ==
    /\ fcall.area = "adjphase"
    /\ \E delta \in AdjphaseArgs, e \in TransportErrors :
          LET plan == [steps |-> BusSteps(MainPath(zl3073x_ptp_adjphase)), ret |-> 0]
          IN  \E n \in 0..Len(plan.steps) :
                 LET run == RunPlan(plan, n, e)
                 IN  fcall' = [fcall EXCEPT
                                  !.call = "adjphase",
                                  !.in = [delta |-> delta],
                                  !.ret = run.ret,
                                  !.out = run.wrote,
                                  !.reg = IF \E i \in 1..Len(run.wrote) :
                                                run.wrote[i] = Direct("tie_data")
                                          THEN zl3073x_swap(AdjphaseTieData(delta))
                                          ELSE @]
    /\ UNCHANGED Others

(***************************************************************************)
(* Input phase adjust (reference mailbox).  fcall.reg is                   *)
(* DPLL_REF_PHASE_OFFSET_COMPENSATION_REG of the reference, six bytes,     *)
(* highest first: what the write request commits and the read request      *)
(* loads.                                                                  *)
(***************************************************************************)
zl3073x_dpll_get_input_phase_adjust ==
    << Lock,
       Wr(MbMask("ref"), "ref", "out"),
       Wr(MbSem("ref"), DPLL_REF_MB_SEM_RD, "out"),
       Poll("zl3073x_ref_mb_sem", DPLL_REF_MB_SEM_RD, "out"),
       Rd(MbData("ref", "PHASE_OFFSET_COMPENSATION"), "buf", "out"),
       Label("out"),
       Unlock,
       Ret("ret") >>

zl3073x_dpll_set_input_phase_adjust ==
    << Lock,
       Wr(MbMask("ref"), "ref", "out"),
       Wr(MbData("ref", "PHASE_OFFSET_COMPENSATION"), "buf", "out"),
       Wr(MbSem("ref"), DPLL_REF_MB_SEM_WR, "out"),
       Poll("zl3073x_dpll_mb_sem", DPLL_REF_MB_SEM_WR, "out"),
       Label("out"),
       Unlock,
       Ret("ret") >>

\* buf[0..5] of the set: the s32 widened to s64, masked to 48 bits, negated.
InputPhaseBuf(phaseOffsetComp32) ==
    LET phaseOffsetComp48 == SubSeq(Limbs(phaseOffsetComp32, 8), 1, 6) \o <<0, 0>>
    IN  SubSeq(TwosComplement(phaseOffsetComp48), 1, 6)

\* The get on the six bytes read: sign extension from bit 47, the test
\* against phase_range, the cast to s32 and ~phaseOffsetComp32 + 1 in s32.
InputPhaseOfBuf(buf) ==
    LET c == Reverse(buf) \o (IF buf[1] >= 128 THEN <<255, 255>> ELSE <<0, 0>>)
        fits == \/ c[4] < 128 /\ \A i \in 5..8 : c[i] = 0
                \/ c[4] >= 128 /\ \A i \in 5..8 : c[i] = 255
        phaseOffsetComp32 ==
            (((IF c[4] >= 128 THEN c[4] - 256 ELSE c[4]) * 256 + c[3]) * 256 + c[2]) * 256
            + c[1]
    IN  IF ~fits THEN [ret |-> -Errno.ERANGE, stored |-> FALSE]
        ELSE [ret |-> 0, stored |-> TRUE,
              phaseAdj |-> IF phaseOffsetComp32 = -2147483647 - 1
                           THEN phaseOffsetComp32 ELSE -phaseOffsetComp32]

InputPhaseArgs == {0, 1, -1, 5, -5, 65536, 2147483647, -2147483647, -2147483647 - 1}

InputPhaseSet ==
    /\ fcall.area = "input_phase"
    /\ \E v \in InputPhaseArgs, e \in TransportErrors :
          LET plan == [steps |-> BusSteps(MainPath(zl3073x_dpll_set_input_phase_adjust)),
                       ret |-> 0]
          IN  \E n \in 0..Len(plan.steps) :
                 LET run == RunPlan(plan, n, e)
                     committed == \E i \in 1..Len(run.wrote) : run.wrote[i] = MbSem("ref")
                 IN  fcall' = [fcall EXCEPT
                                  !.call = "set",
                                  !.in = [v |-> v, set |-> run.done],
                                  !.ret = run.ret,
                                  !.out = NotStored,
                                  !.reg = IF committed THEN zl3073x_swap(InputPhaseBuf(v))
                                          ELSE @]
    /\ UNCHANGED Others

InputPhaseGet ==
    /\ fcall.area = "input_phase"
    /\ fcall.call \in {"set", "get"}
    /\ \E e \in TransportErrors :
          LET plan == [steps |-> BusSteps(MainPath(zl3073x_dpll_get_input_phase_adjust)),
                       ret |-> 0]
          IN  \E n \in 0..Len(plan.steps) :
                 LET run == RunPlan(plan, n, e)
                     got == InputPhaseOfBuf(fcall.reg)
                 IN  fcall' = [fcall EXCEPT
                                  !.call = "get",
                                  !.ret = IF run.done THEN got.ret ELSE run.ret,
                                  !.out = IF run.done THEN got ELSE NotStored]
    /\ UNCHANGED Others

(***************************************************************************)
(* The replay of the configuration file at attach.  A line is its first    *)
(* character and the numbers that follow it in the text; simple_strtoul    *)
(* gives 0 where the text has no number.                                   *)
(***************************************************************************)
MaxLines == 3

FirmwareLines ==
    { [c |-> "X", fields |-> <<562, 18>>], [c |-> "X", fields |-> << >>],
      [c |-> "W", fields |-> <<100>>], [c |-> ";", fields |-> << >>],
      [c |-> "Q", fields |-> <<562, 18>>] }

\* What a line makes _zl3073x_firmware_parse_line do.
_zl3073x_firmware_parse_line(line) ==
    LET number(i) == IF i <= Len(line.fields) THEN line.fields[i] ELSE 0
    IN  CASE line.c = "X" ->
                [k |-> "wr", addr |-> number(1) % 65536, val |-> number(2) % 256]
          [] line.c = "W" -> [k |-> "wait", delay |-> number(1)]
          [] OTHER -> [k |-> "none"]

\* zl3073x_firmware_load from line i on, the write of line bad failing (no
\* write fails if bad is 0): what it returns and the lines it applied.
RECURSIVE zl3073x_firmware_load(_, _, _)
zl3073x_firmware_load(lines, i, bad) ==
    IF i > Len(lines) THEN [ret |-> 0, applied |-> << >>]
    ELSE IF lines[i].c = ";" THEN zl3073x_firmware_load(lines, i + 1, bad)
    ELSE LET todo == _zl3073x_firmware_parse_line(lines[i])
             rest == zl3073x_firmware_load(lines, i + 1, bad)
         IN  IF todo.k = "wr" /\ bad = i
             THEN [ret |-> -Errno.EIO, applied |-> << >>]
             ELSE IF todo.k = "none" THEN rest
             ELSE [ret |-> rest.ret, applied |-> <<i>> \o rest.applied]

FirmwareLoad ==
    /\ fcall.area = "firmware"
    /\ \E len \in 0..MaxLines :
       \E lines \in [1..len -> FirmwareLines], bad \in 0..len :
          LET run == zl3073x_firmware_load(lines, 1, bad)
          IN  fcall' = [fcall EXCEPT !.call = "firmware_load",
                                     !.in = [lines |-> lines, bad |-> bad],
                                     !.ret = run.ret,
                                     !.out = run.applied]
    /\ UNCHANGED Others

(***************************************************************************)
(* The step mask of _zl3073x_ptp_steptime.  dpll->perout_mask is a u16     *)
(* that zl3073x_ptp_enable keeps; the step copies it into buf[0], a u8, of *)
(* a zeroed buffer and writes two bytes.  fcall.reg is                     *)
(* DPLL_OUTPUT_PHASE_STEP_MASK as the device holds it, high byte first.    *)
(***************************************************************************)
\* The bus accesses of a function with those of the functions it calls.
RECURSIVE Inlined(_)
Inlined(table) ==
    IF table = << >> THEN << >>
    ELSE (IF Head(table).k = "call" THEN Inlined(MainPath(Code(Head(table).f)))
          ELSE IF IsBusStep(Head(table)) THEN <<Head(table)>>
          ELSE << >>)
         \o Inlined(Tail(table))

\* memset(buf, 0, sizeof(buf)); buf[0] = dpll->perout_mask;
StepMaskBuf(mask) == << LowByte(mask), 0 >>

StepMaskRequests ==
    [type : {"PTP_CLK_REQ_PEROUT"}, on : {0, 1}, pin : {0, 3, 16, 17, 19},
     start_nsec : {0}, period : {<<1, 0>>}, duty : {FALSE}, on_time : {<<0, 0>>}]

\* zl3073x_ptp_enable with every bus access succeeding.
StepMaskEnable ==
    /\ fcall.area = "step_mask"
    /\ \E rq \in StepMaskRequests :
          LET plan == zl3073x_ptp_enable(rq, perout_mask)
          IN  /\ plan.ret = 0 /\ ~plan.trap
              /\ perout_mask' = plan.mask
              /\ fcall' = [fcall EXCEPT !.call = "ptp_enable",
                                        !.in = [rq |-> rq, mask |-> perout_mask],
                                        !.ret = 0,
                                        !.out = << >>]
    /\ UNCHANGED <<workload, ncalls, lock, stack, th, mb_mask, mb_sem, mb_win, tod_ctrl,
                   tod_sec, step_ctrl, tie_ctrl, prio, infreq>>

\* _zl3073x_ptp_steptime with some output enabled (__ffs of an empty mask
\* is not defined).
Steptime ==
    /\ fcall.area = "step_mask"
    /\ perout_mask # 0
    /\ \E e \in TransportErrors :
          LET plan == [steps |-> Inlined(MainPath(_zl3073x_ptp_steptime)), ret |-> 0]
          IN  \E n \in 0..Len(plan.steps) :
                 LET run == RunPlan(plan, n, e)
                 IN  fcall' = [fcall EXCEPT
                                  !.call = "steptime",
                                  !.in = [mask |-> perout_mask],
                                  !.ret = run.ret,
                                  !.out = run.wrote,
                                  !.reg = IF \E i \in 1..Len(run.wrote) :
                                                run.wrote[i] = Direct("step_mask")
                                          THEN zl3073x_swap(StepMaskBuf(perout_mask))
                                          ELSE @]
    /\ UNCHANGED Others

(***************************************************************************)
(* The step data of _zl3073x_ptp_steptime.  fcall.reg is                   *)
(* DPLL_OUTPUT_PHASE_STEP_DATA as the device holds it, four bytes, highest *)
(* first.  The arguments are those whose product the checker's integers    *)
(* hold.                                                                   *)
(***************************************************************************)
\* register_units = (s32)div_s64(delta * synthFreq, NSEC_PER_SEC);
\* buf[0] = register_units & 0xff; ... buf[3] = (register_units >> 24) & 0xff;
StepDataBuf(delta, synthFreq) == Limbs(CDiv(delta * synthFreq, NSEC_PER_SEC), 4)

StepDeltas == {0, 1, -1, 3, -3, 999999999, -999999999}
StepSynthFreqs == {1, 500000000, 750000000}
StepDataArgs ==
    {a \in StepDeltas \X StepSynthFreqs : Abs(a[1]) <= 2147483647 \div a[2]}

StepData ==
    /\ fcall.area = "step_data"
    /\ perout_mask # 0
    /\ \E a \in StepDataArgs, e \in TransportErrors :
          LET plan == [steps |-> Inlined(MainPath(_zl3073x_ptp_steptime)), ret |-> 0]
          IN  \E n \in 0..Len(plan.steps) :
                 LET run == RunPlan(plan, n, e)
                 IN  fcall' = [fcall EXCEPT
                                  !.call = "steptime",
                                  !.in = [delta |-> a[1], synthFreq |-> a[2]],
                                  !.ret = run.ret,
                                  !.out = run.wrote,
                                  !.reg = IF \E i \in 1..Len(run.wrote) :
                                                run.wrote[i] = Direct("step_data")
                                          THEN zl3073x_swap(StepDataBuf(a[1], a[2]))
                                          ELSE @]
    /\ UNCHANGED Others

OpAreas ==
    {"pin", "adjfine", "adjphase", "input_phase", "firmware", "step_mask", "step_data"}

\* The phase step is called with output 0 enabled, as the time of day
\* workload has it.
InitOps ==
    \E area \in OpAreas :
       /\ workload = IF area = "step_data" THEN "tod" ELSE "input"
       /\ Quiet
       /\ fcall = [area |-> area, call |-> "none", in |-> [none |-> 0],
                   ret |-> 0, out |-> << >>, reg |-> <<0, 0, 0, 0, 0, 0>>]

NextOps ==
    \/ PinOp
    \/ Adjfine
    \/ Adjphase
    \/ InputPhaseSet
    \/ InputPhaseGet
    \/ FirmwareLoad
    \/ StepMaskEnable
    \/ Steptime
    \/ StepData

SpecOps == InitOps /\ [][NextOps]_vars

(***************************************************************************)
(* The signal format of an output pair under periodic-output enable and    *)
(* disable.  fcall.fmt is the signal format field of DPLL_OUTPUT_MODE that *)
(* the device holds for each pair of the model; a write request commits    *)
(* the mode written to the window.  fcall.clean says that every call so    *)
(* far returned 0.                                                         *)
(***************************************************************************)
zl3073x_output_mode_signal_format_t ==
    [BOTH_DISABLED |-> 0, BOTH_ENABLED |-> 4, P_ENABLE |-> 5, N_ENABLE |-> 6]

ZL3073X_N_PIN(pin) == ~ZL3073X_P_PIN(pin)

_zl3073x_ptp_disable_pin(current_mode, pin) ==
    LET F == zl3073x_output_mode_signal_format_t
    IN  CASE current_mode = F.P_ENABLE ->
                IF ZL3073X_P_PIN(pin) THEN F.BOTH_DISABLED ELSE F.BOTH_DISABLED
          [] current_mode = F.N_ENABLE ->
                IF ZL3073X_N_PIN(pin) THEN F.BOTH_DISABLED ELSE F.BOTH_DISABLED
          [] current_mode = F.BOTH_ENABLED ->
                IF ZL3073X_P_PIN(pin) THEN F.N_ENABLE ELSE F.P_ENABLE
          [] OTHER -> F.BOTH_DISABLED

_zl3073x_ptp_enable_pin(current_mode, pin) ==
    LET F == zl3073x_output_mode_signal_format_t
    IN  CASE current_mode = F.P_ENABLE ->
                IF ZL3073X_N_PIN(pin) THEN F.BOTH_ENABLED ELSE F.BOTH_ENABLED
          [] current_mode = F.N_ENABLE ->
                IF ZL3073X_P_PIN(pin) THEN F.BOTH_ENABLED ELSE F.BOTH_ENABLED
          [] current_mode = F.BOTH_DISABLED ->
                IF ZL3073X_P_PIN(pin) THEN F.P_ENABLE ELSE F.N_ENABLE
          [] OTHER -> F.BOTH_ENABLED

FormatPairs == {0, 8}
FormatRequests ==
    [type : {"PTP_CLK_REQ_PEROUT"}, on : {0, 1}, pin : {0, 1, 16, 17},
     start_nsec : {0}, period : {<<1, 0>>}, duty : {FALSE}, on_time : {<<0, 0>>}]

\* zl3073x_ptp_enable, run to its return or to its first failing access.
\* The device commits the mode once the write request is written.
PeroutFormat ==
    /\ fcall.area = "format"
    /\ \E rq \in FormatRequests, e \in TransportErrors :
          LET plan == zl3073x_ptp_enable(rq, perout_mask)
              pair == rq.pin \div 2
              mode == IF rq.on = 0
                      THEN _zl3073x_ptp_disable_pin(fcall.fmt[pair], rq.pin)
                      ELSE _zl3073x_ptp_enable_pin(fcall.fmt[pair], rq.pin)
          IN  \E n \in 0..Len(plan.steps) :
                 LET run == RunPlan(plan, n, e)
                     requests == SelectSeq(run.wrote, LAMBDA reg : reg = MbSem("out"))
                 IN  /\ fcall' = [fcall EXCEPT
                                     !.call = "ptp_enable",
                                     !.in = [rq |-> rq, mask |-> perout_mask,
                                             fmt |-> fcall.fmt, done |-> run.done],
                                     !.ret = run.ret,
                                     !.clean = @ /\ run.ret = 0,
                                     !.fmt = IF Len(requests) = 2
                                             THEN [@ EXCEPT ![pair] = mode]
                                             ELSE @]
                     /\ perout_mask' = IF run.done /\ ~plan.trap THEN plan.mask
                                       ELSE perout_mask
    /\ UNCHANGED <<workload, ncalls, lock, stack, th, mb_mask, mb_sem, mb_win, tod_ctrl,
                   tod_sec, step_ctrl, tie_ctrl, prio, infreq>>

InitFormat ==
    /\ workload = "input"
    /\ Quiet
    /\ fcall = [area |-> "format", call |-> "none", in |-> [none |-> 0], ret |-> 0,
                clean |-> TRUE,
                fmt |-> [k \in FormatPairs |->
                            zl3073x_output_mode_signal_format_t.BOTH_DISABLED]]

SpecFormat == InitFormat /\ [][PeroutFormat]_vars


(***************************************************************************)
(* Every workload under the assumptions of a responsive device: a thread   *)
(* that can step does, the device completes each command it was given, and *)
(* a read command that can latch a later second eventually does.           *)
(***************************************************************************)
HwTodAdvance == DeviceTurn /\ HwTod /\ tod_sec' > tod_sec

LiveWorkloads == {"tod", "input", "v3"}

InitLive ==
    /\ workload \in LiveWorkloads
    /\ Loaded
    /\ prio = PrioIdle
    /\ infreq = FreqIdle
    /\ fcall = FnIdle

LiveSpec ==
    /\ InitLive
    /\ [][Next]_vars
    /\ \A t \in Threads : WF_vars(ThreadStep(t))
    /\ \A m \in Mailboxes : WF_vars(DeviceTurn /\ HwMailbox(m))
    /\ WF_vars(DeviceTurn /\ HwTod)
    /\ WF_vars(DeviceTurn /\ HwStep)
    /\ WF_vars(DeviceTurn /\ HwTie)
    /\ SF_vars(HwTodAdvance)


(***************************************************************************)
(* The time of day as bytes: _zl3073x_ptp_settime64 turns a timespec64     *)
(* into two buffers of six bytes that zl3073x_write reverses on their way  *)
(* to DPLL_TOD_SEC and DPLL_TOD_NSEC, and _zl3073x_ptp_gettime64 turns the *)
(* bytes zl3073x_read delivers, in the device's order, into a timespec64.  *)
(* tv_sec is kept as hi * 2^24 + lo, 48 bits in two halves.                *)
(***************************************************************************)
DPLL_TOD_SEC_SIZE == 6
DPLL_TOD_NSEC_SIZE == 6
\* 2^24
Half == 256 * 256 * 256

\* (tv_sec >> (8 * k)) & 0xff
SecByte(tv_sec, k) ==
    IF k < 3 THEN Limbs(tv_sec.lo, 3)[k + 1] ELSE Limbs(tv_sec.hi, 3)[k - 2]

zl3073x_ptp_timestamp_to_bytearray(ts) ==
    [sec |-> [i \in 1..DPLL_TOD_SEC_SIZE |-> SecByte(ts.tv_sec, i - 1)],
     nsec |-> Limbs(ts.tv_nsec, 4) \o <<0, 0>>]

\* v = buf[0]; for (i = 1; i < n; ++i) { v = v << 8; v |= buf[i]; }
RECURSIVE ShiftIn(_, _)
ShiftIn(buf, n) == IF n = 1 THEN buf[1] ELSE ShiftIn(buf, n - 1) * 256 + buf[n]

set_normalized_timespec64(tv_sec, tv_nsec) ==
    LET lo == tv_sec.lo + tv_nsec \div NSEC_PER_SEC
    IN  [tv_sec |-> [hi |-> tv_sec.hi + lo \div Half, lo |-> lo % Half],
         tv_nsec |-> tv_nsec % NSEC_PER_SEC]

zl3073x_ptp_bytearray_to_timestamp(sec, nsec) ==
    set_normalized_timespec64(
        [hi |-> ShiftIn(SubSeq(sec, 1, 3), 3), lo |-> ShiftIn(SubSeq(sec, 4, 6), 3)],
        ShiftIn(nsec, DPLL_TOD_NSEC_SIZE - 2))

TodSeconds ==
    { [hi |-> h, lo |-> l] : h \in {0, 1, 256, Half - 1}, l \in {0, 1, 65536, Half - 1} }
TodNanos == {0, 1, 255, 256, 65536, 65537, 16777216, 999999999}

\* _zl3073x_ptp_settime64 with the bus working: what the two registers hold.
TodSet ==
    /\ fcall.area = "tod_bytes"
    /\ \E s \in TodSeconds, n \in TodNanos :
          LET ts == [tv_sec |-> s, tv_nsec |-> n]
              b == zl3073x_ptp_timestamp_to_bytearray(ts)
          IN  fcall' = [area |-> "tod_bytes", call |-> "settime", in |-> ts, ret |-> 0,
                        out |-> ts,
                        reg |-> [sec |-> zl3073x_swap(b.sec), nsec |-> zl3073x_swap(b.nsec)]]
    /\ UNCHANGED <<workload, ncalls, lock, stack, th, mb_mask, mb_sem, mb_win, tod_ctrl,
                   tod_sec, step_ctrl, tie_ctrl, perout_mask, prio, infreq>>

\* _zl3073x_ptp_gettime64 with the bus working and the registers as set.
TodGet ==
    /\ fcall.area = "tod_bytes"
    /\ fcall.call = "settime"
    /\ fcall' = [fcall EXCEPT !.call = "gettime",
                    !.out = zl3073x_ptp_bytearray_to_timestamp(fcall.reg.sec, fcall.reg.nsec)]
    /\ UNCHANGED <<workload, ncalls, lock, stack, th, mb_mask, mb_sem, mb_win, tod_ctrl,
                   tod_sec, step_ctrl, tie_ctrl, perout_mask, prio, infreq>>

InitTodBytes ==
    /\ workload = "input"
    /\ Quiet
    /\ fcall = [area |-> "tod_bytes", call |-> "none",
                in |-> [tv_sec |-> [hi |-> 0, lo |-> 0], tv_nsec |-> 0], ret |-> 0,
                out |-> [tv_sec |-> [hi |-> 0, lo |-> 0], tv_nsec |-> 0],
                reg |-> [sec |-> <<0, 0, 0, 0, 0, 0>>, nsec |-> <<0, 0, 0, 0, 0, 0>>]]

SpecTodBytes == InitTodBytes /\ [][TodSet \/ TodGet]_vars


(***************************************************************************)
(* The dividers zl3073x_dpll_set_output_frequency computes and the bytes   *)
(* the four registers of the output mailbox receive, the bus working.  A   *)
(* register is kept as the four bytes the device gets, first address       *)
(* first; zl3073x_write reverses the caller's buffer in place, so a buffer *)
(* written a second time goes out in the order it was filled in.           *)
(***************************************************************************)
DividerRegs == {"DIV", "WIDTH", "ESYNC_DIV", "ESYNC_PULSE_WIDTH"}

\* buf[0] = (u8)(v >> 0); ... buf[3] = (u8)(v >> 24); then zl3073x_write of
\* buf to register first and to register second.
WriteTwice(regs, v, first, second) ==
    LET buf == Limbs(v, 4)
        sent1 == zl3073x_swap(buf)
        sent2 == zl3073x_swap(sent1)
    IN  [regs EXCEPT ![first] = sent1, ![second] = sent2]

\* The registers after the data writes of the call and the names of those
\* it wrote; curDiv and curNDiv are what DPLL_OUTPUT_DIV and
\* DPLL_OUTPUT_ESYNC_DIV_REG read as.
SetOutputDividers(regs, outputIndex, frequency, synthFreq, curDiv, curNDiv) ==
    LET outPFreqHz == synthFreq \div curDiv
        outNFreqHz == outPFreqHz \div curNDiv
    IN  IF PinType(outputIndex) = "DIVIDED"
        THEN IF ZL3073X_P_PIN(outputIndex)
             THEN IF frequency > outNFreqHz
                  THEN [regs |-> WriteTwice(
                                    WriteTwice(regs, synthFreq \div frequency, "DIV", "WIDTH"),
                                    frequency \div outNFreqHz,
                                    "ESYNC_DIV", "ESYNC_PULSE_WIDTH"),
                        wrote |-> DividerRegs, ret |-> 0]
                  ELSE [regs |-> regs, wrote |-> {}, ret |-> -Errno.EINVAL]
             ELSE IF outPFreqHz > frequency
                  THEN [regs |-> WriteTwice(regs, outPFreqHz \div frequency,
                                            "ESYNC_DIV", "ESYNC_PULSE_WIDTH"),
                        wrote |-> {"ESYNC_DIV", "ESYNC_PULSE_WIDTH"}, ret |-> 0]
                  ELSE [regs |-> regs, wrote |-> {}, ret |-> -Errno.EINVAL]
        ELSE [regs |-> WriteTwice(regs, synthFreq \div frequency, "DIV", "WIDTH"),
              wrote |-> {"DIV", "WIDTH"}, ret |-> 0]

\* The registers before a call.
DividersIdle == [n \in DividerRegs |-> <<0, 0, 0, 0>>]

DividerPins == {0, 4, 14, 15}
DividerSynthFreqs == {10000000, 500000000, 750000000}
DividerCurrent == {1, 10, 500000000}

OutputDividers ==
    /\ fcall.area = "dividers"
    /\ \E outputIndex \in DividerPins, frequency \in output_freq_range_ptp,
          synthFreq \in DividerSynthFreqs, curDiv \in DividerCurrent, curNDiv \in {1, 25} :
          /\ synthFreq \div curDiv >= curNDiv
          /\ LET r == SetOutputDividers(DividersIdle, outputIndex, frequency, synthFreq,
                                        curDiv, curNDiv)
             IN  fcall' = [area |-> "dividers", call |-> "set_output_frequency",
                           in |-> [outputIndex |-> outputIndex, frequency |-> frequency,
                                   synthFreq |-> synthFreq, curDiv |-> curDiv,
                                   curNDiv |-> curNDiv],
                           ret |-> r.ret, out |-> r.wrote, reg |-> r.regs]
    /\ UNCHANGED Others

InitDividers ==
    /\ workload = "input"
    /\ Quiet
    /\ fcall = [area |-> "dividers", call |-> "none",
                in |-> [outputIndex |-> 0, frequency |-> 0, synthFreq |-> 0,
                        curDiv |-> 0, curNDiv |-> 0],
                ret |-> 0, out |-> {}, reg |-> DividersIdle]

SpecDividers == InitDividers /\ [][OutputDividers]_vars


(***************************************************************************)
(* Properties.                                                             *)
(***************************************************************************)
AtBusAccess(t) == Running(t) /\ Stmt(t).k \in {"wr", "rd", "poll"}
AtFinalRet(t) == At(t, "ret") /\ Len(stack[t]) = 1
ReturnValue(t) == RetVal(th[t], Stmt(t).v)
Called(t, f) == \E k \in 1..Len(stack[t]) : stack[t][k].f = f

\* Thread t stands between its select of mailbox m and its last access to
\* the data window of m in the function it runs.
IsSelect(s, m) == s.k = "wr" /\ s.reg = MbMask(m)
IsWindowAccess(s, m) ==
    s.k \in {"wr", "rd"} /\ s.reg.mb = m /\ s.reg.role \notin {"mask", "sem"}
InTxn(t, m) ==
    /\ Running(t)
    /\ LET c == Code(Top(t).f)
           i == Top(t).i
       IN  /\ \E j \in 1..(i - 1) : IsSelect(c[j], m)
           /\ \E j \in i..Len(c) : IsWindowAccess(c[j], m)

\* C1: a thread that stands at a register access (a write, a read or a
\* poll of the device) holds the device lock.
C1_AccessUnderLock == \A t \in Threads : AtBusAccess(t) => lock = t

\* C2: no two threads are inside a transaction on the same mailbox at once:
\* no select of a mailbox falls between another thread's select and that
\* thread's last access to the data window.
C2_NoInterleavedTransaction ==
    \A t, u \in Threads : \A m \in Mailboxes :
        t # u => ~(InTxn(t, m) /\ InTxn(u, m))

\* C3: a thread that runs no operation does not hold the device lock: every
\* operation that returned has released it.
C3_LockFreeAfterReturn == \A t \in Threads : ~Running(t) => lock # t

\* C4: an operation one of whose polls timed out, the bus never failing,
\* returns the timeout error.
C4_TimeoutReturned ==
    \A t \in Threads :
        AtFinalRet(t) /\ th[t].tmo /\ th[t].xerr = 0 =>
            ReturnValue(t) = -Errno.ETIMEDOUT

\* C5: an operation that met a transport error returns that error.
C5_TransportErrorReturned ==
    \A t \in Threads :
        AtFinalRet(t) /\ th[t].xerr # 0 => ReturnValue(t) = -th[t].xerr

\* C6: a set of reference r to p (p in 0..15) changes r's nibble of the
\* packed byte and keeps the other: 0xAB with reference 0 set to 0xC is
\* 0xAC, a following get of r returns p and a following get of the partner
\* returns what it held before the set.
C6_NibblePreserved ==
    /\ prio.call = "set" /\ prio.p <= 15 =>
          /\ DPLL_REF_PRIORITY_GET(prio.byte, prio.r) = prio.p
          /\ DPLL_REF_PRIORITY_GET(prio.byte, 1 - prio.r)
                = DPLL_REF_PRIORITY_GET(prio.before, 1 - prio.r)
          /\ (prio.before = 171 /\ prio.r = 0 /\ prio.p = 12 => prio.byte = 172)
    /\ prio.call = "get" /\ prio.p <= 15 =>
          prio.got = IF prio.gr = prio.r THEN prio.p
                     ELSE DPLL_REF_PRIORITY_GET(prio.before, prio.gr)

\* C7: zl3073x_ptp_adjtime with a delta of a second or more, either way,
\* reads the predicted time and sets the time of day only after its wait
\* for the rollover has returned success; with a smaller delta it calls
\* neither the wait nor the set.
AdjtimeCalls(t, f) ==
    \/ Len(stack[t]) >= 2 /\ stack[t][2].f = f
    \/ Len(stack[t]) = 1 /\ Stmt(t).k = "call" /\ Stmt(t).f = f
C7_RolloverBeforeSet ==
    \A t \in Threads :
        th[t].op = "zl3073x_ptp_adjtime" =>
            IF th[t].n >= NSEC_PER_SEC \/ th[t].n <= -NSEC_PER_SEC
            THEN (AdjtimeCalls(t, "_zl3073x_ptp_gettime64")
                    \/ AdjtimeCalls(t, "_zl3073x_ptp_settime64")) => th[t].rolled
            ELSE /\ ~Called(t, "zl3073x_ptp_wait_sec_rollover")
                 /\ ~Called(t, "_zl3073x_ptp_settime64")
                 /\ ~th[t].rolled

\* C7 happens: an adjtime by a whole second is inside the set of the time
\* of day, its wait for the rollover done.
C7_Witness ==
    \E t \in Threads :
        /\ th[t].op = "zl3073x_ptp_adjtime"
        /\ th[t].n = NSEC_PER_SEC
        /\ Called(t, "_zl3073x_ptp_settime64")
        /\ th[t].rolled
        /\ AtBusAccess(t)

\* C8: zl3073x_ptp_adjtime(0) writes no register of the device.
C8_ZeroStepWritesNothing ==
    \A t \in Threads :
        th[t].op = "zl3073x_ptp_adjtime" /\ th[t].n = 0 => ~th[t].wrote

\* C9: a thread inside zl3073x_ptp_wait_sec_rollover leaves it.
C9_RolloverWaitEnds ==
    \A t \in Threads :
        Called(t, "zl3073x_ptp_wait_sec_rollover")
            ~> ~Called(t, "zl3073x_ptp_wait_sec_rollover")

\* C10: a get that follows a successful set of a frequency of the table
\* returns that frequency, and a set of a frequency outside the table is
\* refused with no register written.
C10_FrequencyRoundTrip ==
    /\ infreq.call = "get" /\ infreq.f \in ZL3073X_INPUT_FREQ /\ infreq.sret = 0 =>
          infreq.ret = 0 /\ infreq.got = infreq.f
    /\ infreq.call = "set" /\ infreq.f \notin ZL3073X_INPUT_FREQ =>
          infreq.ret = -Errno.EOPNOTSUPP /\ infreq.writes = 0

\* C11: a phase value that is an exact multiple of the half synth cycle, 0
\* included, is set with success, and the get that follows on the same
\* output returns it.
IsPhaseMultiple == fcall.v % fcall.h = 0

C11_PhaseRoundTrip ==
    fcall.area = "phase" /\ IsPhaseMultiple =>
        /\ fcall.call # "oops"
        /\ fcall.call = "set" => fcall.sret = 0
        /\ fcall.call = "get" => fcall.sret = 0 /\ fcall.ret = 0 /\ fcall.got = fcall.v

\* C12: a set with an offset that is no exact multiple of the half synth
\* cycle returns -ERANGE and writes no register; an exact multiple is never
\* answered with -ERANGE.
C12_NonMultipleRejected ==
    fcall.area = "phase" /\ fcall.call = "set" =>
        /\ ~IsPhaseMultiple => fcall.sret = -Errno.ERANGE /\ ~fcall.wrote
        /\ IsPhaseMultiple => fcall.sret # -Errno.ERANGE

\* C13: for a denominator that is not 0 the frequency returned is
\* floor(base * multiplier * numerator / denominator) with no 32 bit
\* wrap-around of the product; base 0x4E20, multiplier 0x1388, numerator 1,
\* denominator 1 give 100,000,000.
ExactSynthFreq(bbase, bmult, bnum, bden) ==
    DivSmall(MulSmall(MulSmall(ZeroExtend(Reverse(bmult), 8), U16OfBuf(bbase), 0),
                      U16OfBuf(bnum), 0),
             U16OfBuf(bden), 0)

C13_SynthFreqExact ==
    fcall.area = "synth" /\ fcall.call = "freq" =>
        /\ fcall.ret = 0
        /\ fcall.got = ExactSynthFreq(fcall.base, fcall.mult, fcall.num, fcall.den)
        /\ (/\ fcall.base = <<78, 32>> /\ fcall.mult = <<0, 0, 19, 136>>
            /\ fcall.num = <<0, 1>> /\ fcall.den = <<0, 1>>)
           => fcall.got = Limbs(100000000, 8)

\* C14: the lock status reported is a function of the raw lock state and
\* the holdover-ready flag: free-run, fast-lock and acquiring give
\* unlocked, holdover gives holdover, locked gives locked with the flag
\* clear and locked-holdover-acquired with the flag set; the flag changes
\* nothing in the other states.
C14_LockStatusMapping ==
    fcall.area = "device" /\ fcall.call = "lock_status_get" /\ fcall.ret = 0 =>
        LET raw == (fcall.in.dpll_status \div 16) % 8
            ho == (fcall.in.dpll_mon_status \div 4) % 2
        IN  /\ raw \in {0, 2, 3} => fcall.out = DPLL_LOCK_STATUS.UNLOCKED
            /\ raw = 1 => fcall.out = DPLL_LOCK_STATUS.HOLDOVER
            /\ raw = 4 /\ ho = 0 => fcall.out = DPLL_LOCK_STATUS.LOCKED
            /\ raw = 4 /\ ho = 1 => fcall.out = DPLL_LOCK_STATUS.LOCKED_HO_ACQ

C14_Witness ==
    /\ fcall.area = "device" /\ fcall.call = "lock_status_get" /\ fcall.ret = 0
    /\ fcall.in.dpll_status = 201
    /\ fcall.in.dpll_mon_status = 255
    /\ fcall.out = DPLL_LOCK_STATUS.LOCKED_HO_ACQ

\* C15: the mode get maps raw holdover and forced-reference-lock to manual
\* and raw automatic-lock to automatic; for raw free-run and NCO it reports
\* an error to its caller, not a success that carries a mode value.
C15_ModeMapping ==
    fcall.area = "device" /\ fcall.call = "mode_get" =>
        LET raw == fcall.in.mode % 8
        IN  /\ fcall.ret = 0 /\ raw \in {1, 2} => fcall.out = DPLL_MODE.MANUAL
            /\ fcall.ret = 0 /\ raw = 3 => fcall.out = DPLL_MODE.AUTOMATIC
            /\ raw \in {0, 4} => fcall.ret # 0

\* C16: for a reference in manual (forced reference) mode whose monitor
\* status is qualified, the state is connected if and only if the pin's
\* reference index equals the reference number in bits 7..4 of the DPLL
\* mode register, and disconnected otherwise.
C16_ForcedRefConnected ==
    /\ fcall.area = "input_pin" /\ fcall.call = "input_pin_state_get" /\ fcall.ret = 0
    /\ fcall.in.ref_status = 0
    /\ fcall.in.mode % 8 = ZL3073X_MODE.REFLOCK
    => fcall.out = IF fcall.in.ref_index = fcall.in.mode \div 16
                   THEN DPLL_PIN_STATE.CONNECTED
                   ELSE DPLL_PIN_STATE.DISCONNECTED

\* C17: a reference whose monitor status is unqualified is disconnected
\* whatever the mode; a qualified one in automatic mode is connected when
\* its index equals the selected reference, else selectable when its
\* priority is not 0xF, else disconnected.
C17_AutoLockState ==
    fcall.area = "input_pin" /\ fcall.call = "input_pin_state_get" /\ fcall.ret = 0 =>
        LET ref == fcall.in.ref_index
            nibble == IF ref % 2 = 0 THEN fcall.in.priority % 16
                      ELSE fcall.in.priority \div 16
        IN  /\ fcall.in.ref_status # 0 => fcall.out = DPLL_PIN_STATE.DISCONNECTED
            /\ fcall.in.ref_status = 0 /\ fcall.in.mode % 8 = ZL3073X_MODE.AUTO_LOCK =>
                  fcall.out = IF ref = fcall.in.selected_ref % 16
                              THEN DPLL_PIN_STATE.CONNECTED
                              ELSE IF nibble # 15 THEN DPLL_PIN_STATE.SELECTABLE
                              ELSE DPLL_PIN_STATE.DISCONNECTED

C17_Witness ==
    /\ fcall.area = "input_pin" /\ fcall.call = "input_pin_state_get" /\ fcall.ret = 0
    /\ fcall.in.ref_status = 0 /\ fcall.in.mode = 19
    /\ fcall.in.ref_index = 0 /\ fcall.in.selected_ref = 65 /\ fcall.in.priority = 31
    /\ fcall.out = DPLL_PIN_STATE.DISCONNECTED

\* C18: an output pin queried on DPLL d is connected if and only if the
\* synth that drives the output's pair is assigned to DPLL d, and
\* disconnected otherwise; from the same register values the pin is never
\* connected on two different DPLLs.
C18_OutputPinState ==
    fcall.area = "output_pin" /\ fcall.call = "output_pin_state_get" /\ fcall.ret = 0 =>
        LET synth == (fcall.in.output_ctrl \div 16) % 8
            synth_dpll == (fcall.in.synth_ctrl \div 16) % 8
        IN  /\ fcall.out = IF synth < 5 /\ synth_dpll = fcall.in.dpll_index
                           THEN DPLL_PIN_STATE.CONNECTED
                           ELSE DPLL_PIN_STATE.DISCONNECTED
            /\ (/\ fcall.in.prev # <<>>
                /\ fcall.in.prev[1] # fcall.in.dpll_index
                /\ fcall.in.prev[2] = DPLL_PIN_STATE.CONNECTED)
               => fcall.out = DPLL_PIN_STATE.DISCONNECTED

C18_Witness ==
    /\ fcall.area = "output_pin" /\ fcall.call = "output_pin_state_get" /\ fcall.ret = 0
    /\ fcall.in.output_index = 19 /\ fcall.in.output_ctrl = 16
    /\ fcall.in.synth_ctrl = 16
    /\ fcall.in.dpll_index = 0 /\ fcall.in.prev = <<1, DPLL_PIN_STATE.CONNECTED>>
    /\ fcall.out = DPLL_PIN_STATE.DISCONNECTED

\* C19: a periodic output enable request whose period is not exactly 1 s
\* and 0 ns, or whose start nanoseconds are not 0, is answered with an
\* error, writes no register and leaves the active-output mask as it was.
IsBadPeriod(rq) ==
    /\ rq.type = "PTP_CLK_REQ_PEROUT" /\ rq.on = 1
    /\ rq.start_nsec # 0 \/ rq.period # <<1, 0>>

C19_BadPeriodRejected ==
    fcall.area = "perout" /\ fcall.call \in {"ptp_enable", "oops"}
    /\ IsBadPeriod(fcall.in.rq) =>
        /\ fcall.call = "ptp_enable"
        /\ fcall.ret < 0
        /\ fcall.out = << >>
        /\ perout_mask = fcall.in.mask

C19_Witness ==
    /\ fcall.area = "perout" /\ fcall.call = "ptp_enable"
    /\ fcall.in.rq.on = 1 /\ fcall.in.rq.pin = 2 /\ fcall.in.rq.start_nsec = 0
    /\ fcall.in.rq.period = <<0, 5>>
    /\ fcall.in.mask = 1
    /\ fcall.ret = -Errno.ERANGE

\* C20: a validation error is returned before any register is written: a
\* set of an output frequency that is not in the pin's table, and a
\* periodic output enable with an 'on' time of one second or more, return
\* the error with no mailbox mask, semaphore or data register written.
C20_ValidationBeforeWrites ==
    /\ (/\ fcall.area = "output_freq" /\ fcall.call = "set_output_frequency"
        /\ fcall.in.frequency \notin output_freq_range_ptp
        /\ fcall.in.done)
       => fcall.ret = -Errno.EINVAL /\ fcall.out = << >>
    /\ (/\ fcall.area = "perout" /\ fcall.call = "ptp_enable"
        /\ fcall.in.rq.on = 1 /\ fcall.in.rq.duty /\ fcall.in.rq.on_time[1] >= 1
        /\ fcall.in.done)
       => fcall.ret < 0 /\ fcall.out = << >>

\* C21: phase-offset get, priority get, priority set and
\* fractional-frequency-offset get on an output pin (index outside 20..29)
\* return -EOPNOTSUPP at once: the lock is not taken, no register is
\* accessed and the driver's state stays as it was.
C21_OutputPinUnsupported ==
    fcall.area = "pin" /\ fcall.call \in PinCallbacks
        /\ fcall.in.index \notin 20..29 =>
            /\ fcall.ret = -Errno.EOPNOTSUPP
            /\ fcall.out = << >>
            /\ lock = fcall.in.lock
            /\ perout_mask = fcall.in.perout_mask

\* C21 happens: a priority set on output pin 19 was answered.
C21_Witness ==
    /\ fcall.area = "pin"
    /\ fcall.call = "zl3073x_dpll_pin_prio_set"
    /\ fcall.in.index = 19
    /\ fcall.ret = -Errno.EOPNOTSUPP

\* C22: after zl3073x_ptp_adjfine(scaled_ppm) returned success, 0 included,
\* DPLL_DF_OFFSET holds the 48 bit two's complement of
\* -floor(281474976 * scaled_ppm / 2^16): the register reflects the last
\* call.
NegatedPpmOffset(scaled_ppm) ==
    LET product == MulSmall(Limbs(ZL3073X_1PPM_FORMAT, 8), scaled_ppm, 0)
        sign == IF product[8] >= 128 THEN 255 ELSE 0
        floor == SubSeq(product, 3, 8) \o <<sign, sign>>
    IN  Reverse(SubSeq(MulSmall(floor, -1, 0), 1, 6))

C22_FrequencyOffsetWritten ==
    fcall.area = "adjfine" /\ fcall.call = "adjfine" /\ fcall.ret = 0 =>
        fcall.reg = NegatedPpmOffset(fcall.in.scaled_ppm)

\* C23: zl3073x_ptp_adjphase(delta) writes to DPLL_TIE_DATA the 48 bit
\* two's complement of the sub-second part of delta clamped to -1 s..+1 s,
\* times 100000; what it writes is below 10^14 in magnitude and has the
\* sign of delta.
ClampedTieData(delta) ==
    LET clamped == IF delta > NSEC_PER_SEC THEN NSEC_PER_SEC
                   ELSE IF delta < -NSEC_PER_SEC THEN -NSEC_PER_SEC
                   ELSE delta
    IN  Reverse(SubSeq(MulSmall(Limbs(CMod(clamped, NSEC_PER_SEC), 8), 100000, 0), 1, 6))

\* 10^14 is 0x5AF3107A4000.
BelowTenToThe14(reg) ==
    LET limit == <<90, 243, 16, 122, 64, 0>>
        magnitude == IF reg[1] >= 128 THEN Reverse(TwosComplement(Reverse(reg)))
                     ELSE reg
    IN  \E i \in 1..6 : /\ magnitude[i] < limit[i]
                        /\ \A j \in 1..(i - 1) : magnitude[j] = limit[j]

C23_PhaseClampedAndScaled ==
    fcall.area = "adjphase" /\ fcall.call = "adjphase"
        /\ (\E i \in 1..Len(fcall.out) : fcall.out[i] = Direct("tie_data")) =>
            /\ fcall.reg = ClampedTieData(fcall.in.delta)
            /\ BelowTenToThe14(fcall.reg)
            /\ fcall.in.delta > 0 => fcall.reg[1] < 128
            /\ fcall.in.delta < 0 =>
                  fcall.reg[1] >= 128 \/ fcall.reg = <<0, 0, 0, 0, 0, 0>>

\* C24: for every s32 v, a set of the input phase adjust to v that
\* succeeded leaves the 48 bit two's complement of -v in the register, and
\* a get that follows it on the same reference succeeds and returns v.
C24_InputPhaseRoundTrip ==
    fcall.area = "input_phase" /\ fcall.call \in {"set", "get"} /\ fcall.in.set =>
        /\ fcall.reg = Reverse(SubSeq(MulSmall(Limbs(fcall.in.v, 8), -1, 0), 1, 6))
        /\ fcall.call = "get" /\ fcall.ret \notin {-e : e \in TransportErrors}
              /\ fcall.ret # -Errno.ETIMEDOUT =>
                 /\ fcall.ret = 0
                 /\ fcall.out.stored
                 /\ fcall.out.phaseAdj = fcall.in.v

\* C25: in the replay of the configuration lines the first line that is
\* malformed (neither a well-formed X line, nor a well-formed W line, nor a
\* comment) or whose register write fails ends the replay: no line after
\* it is applied.
IsWellFormed(line) ==
    \/ line.c = "X" /\ Len(line.fields) = 2
    \/ line.c = "W" /\ Len(line.fields) = 1
    \/ line.c = ";"

C25_ReplayStopsAtBadLine ==
    fcall.area = "firmware" /\ fcall.call = "firmware_load" =>
        \A j \in 1..Len(fcall.in.lines) :
            ~IsWellFormed(fcall.in.lines[j])
                \/ (fcall.in.bad = j /\ fcall.in.lines[j].c = "X") =>
                    \A k \in 1..Len(fcall.out) : fcall.out[k] <= j

\* C26: a thread that stands at a read of a mailbox's data window has
\* before it, in this order, the write of that mailbox's mask, the write
\* of the read request to that mailbox's semaphore register and a poll of
\* that register for the read-request bit; and when it holds the lock the
\* request is no longer pending in the register.
ReadRequested(c, i, m) ==
    \E j, k, l \in 1..(i - 1) :
        /\ j < k /\ k < l
        /\ IsSelect(c[j], m)
        /\ c[k].k = "wr" /\ c[k].reg = MbSem(m) /\ c[k].v = DPLL_REF_MB_SEM_RD
        /\ c[l].k = "poll" /\ SemReaders[c[l].fn].reg = MbSem(m)
        /\ c[l].mask = DPLL_REF_MB_SEM_RD

C26_ReadAfterRequestDone ==
    \A t \in Threads : \A m \in Mailboxes :
        At(t, "rd") /\ IsWindowAccess(Stmt(t), m) =>
            /\ ReadRequested(Code(Top(t).f), Top(t).i, m)
            /\ lock = t => BitAnd(mb_sem[m], DPLL_REF_MB_SEM_RD) = 0

\* C27: a thread that stands at a write to a data-window register of a
\* mailbox has before it, in the function it runs, the select of that
\* mailbox, the read request and a poll of that mailbox's semaphore for the
\* read-request bit: the target's current data was loaded before any of it
\* is written and before the write request that follows.
C27_WriteAfterLoad ==
    \A t \in Threads : \A m \in Mailboxes :
        At(t, "wr") /\ IsWindowAccess(Stmt(t), m) =>
            ReadRequested(Code(Top(t).f), Top(t).i, m)

\* C28: in a time of day read or write the command register is written only
\* while the semaphore bit shows clear (the poll before it observed it so,
\* and only the holder of the lock sets it); the read takes the seconds and
\* then the nanoseconds only while the semaphore is clear again after its
\* command; the write stores the seconds and then the nanoseconds before its
\* command; gettime64 passes the immediate read command and settime64 the
\* write at the next 1 Hz edge.
TodSemClear == BitAnd(tod_ctrl, DPLL_TOD_CTRL_SEM) = 0

C28_TodCommandOrder ==
    \A t \in Threads :
        LET c == Code(Top(t).f)
            i == Top(t).i
        IN  /\ At(t, "wr") /\ Stmt(t).reg = Direct("tod_ctrl") =>
                /\ TodSemClear
                /\ \E j \in 1..(i - 1) :
                      c[j].k = "poll" /\ SemReaders[c[j].fn].reg = Direct("tod_ctrl")
                /\ Top(t).f = "_zl3073x_ptp_settime64" =>
                      /\ c[i - 2] = Wr(Direct("tod_sec"), "data", "out")
                      /\ c[i - 1] = Wr(Direct("tod_nsec"), "data", "out")
            /\ At(t, "rd") /\ Stmt(t).reg \in {Direct("tod_sec"), Direct("tod_nsec")} =>
                /\ TodSemClear
                /\ \E j, k \in 1..(i - 1) :
                      /\ j < k
                      /\ c[j].k = "wr" /\ c[j].reg = Direct("tod_ctrl")
                      /\ c[k].k = "poll" /\ SemReaders[c[k].fn].reg = Direct("tod_ctrl")
                /\ Stmt(t).reg = Direct("tod_nsec") =>
                      c[i - 1].k = "rd" /\ c[i - 1].reg = Direct("tod_sec")
            /\ Running(t) /\ Len(stack[t]) = 2 /\ stack[t][1].f \in {"zl3073x_ptp_gettime64", "zl3073x_ptp_gettime64_v2"} =>
                Top(t).a = ZL3073X_TOD_CTRL_CMD_READ
            /\ Running(t) /\ Len(stack[t]) = 2 /\ stack[t][1].f = "zl3073x_ptp_settime64" =>
                Top(t).a = ZL3073X_TOD_CTRL_CMD_WRITE_NEXT_1HZ

\* C29: the phase step writes the step count, the step data, the step mask
\* and the control register in this order, each only while the control
\* register's operation field shows idle (the poll before them observed it
\* so), and returns after the control write with no further poll; when
\* adjtime steps by a second or more, the phase step runs only after the
\* time of day was written and while the time of day semaphore shows clear
\* (the poll after the write observed it so).
StepRegs == << "step_number", "step_data", "step_mask", "step_ctrl" >>

StepWrites(c) ==
    SelectSeq([j \in 1..Len(c) |->
                  IF c[j].k = "wr" /\ c[j].reg.mb = "none" THEN c[j].reg.role ELSE "none"],
              LAMBDA n : \E q \in 1..Len(StepRegs) : StepRegs[q] = n)

C29_PhaseStepOrder ==
    \A t \in Threads :
        Running(t) /\ Top(t).f = "_zl3073x_ptp_steptime" =>
            LET c == Code(Top(t).f)
                i == Top(t).i
                caller == stack[t][Len(stack[t]) - 1]
                cc == Code(caller.f)
            IN  /\ StepWrites(c) = StepRegs
                /\ c[1].k = "poll" /\ SemReaders[c[1].fn].reg = Direct("step_ctrl")
                /\ \A j \in 1..Len(c) :
                      c[j].k = "wr" /\ c[j].reg = Direct("step_ctrl") =>
                          c[Adv(Top(t).f, j + 1)].k = "ret"
                /\ At(t, "wr") /\ Stmt(t).reg.mb = "none" =>
                      BitAnd(step_ctrl, DPLL_OUTPUT_PHASE_STEP_CTRL_OP_MASK) = 0
                /\ (th[t].n >= NSEC_PER_SEC \/ th[t].n <= -NSEC_PER_SEC) =>
                      /\ \E j, k \in 1..(caller.i - 1) :
                            /\ j < k
                            /\ cc[j] = Call("_zl3073x_ptp_settime64",
                                            "ZL3073X_TOD_CTRL_CMD_WRITE_NEXT_1HZ", "out")
                            /\ cc[k].k = "poll"
                            /\ SemReaders[cc[k].fn].reg = Direct("tod_ctrl")
                      /\ TodSemClear

\* C30: once the phase step has written the step mask register, the 16-bit
\* value the register holds equals the DPLL's mask of active outputs,
\* bits 8 and 9 (pins 16..19) included.
C30_StepMaskIsPeroutMask ==
    /\ fcall.area = "step_mask" /\ fcall.call = "steptime"
    /\ \E i \in 1..Len(fcall.out) : fcall.out[i] = Direct("step_mask")
    => fcall.reg[1] * 256 + fcall.reg[2] = fcall.in.mask

\* C31: once the phase step has written the step data register, the signed
\* 32-bit value the register holds is delta * synthFreq / 10^9 rounded to
\* the nearest integer (either neighbour at an exact half), and it has the
\* sign of delta.
S32OfReg(reg) ==
    LET u == ((reg[1] % 128) * 256 + reg[2]) * 65536 + reg[3] * 256 + reg[4]
    IN  IF reg[1] >= 128 THEN u - 2147483647 - 1 ELSE u

Sign(a) == IF a > 0 THEN 1 ELSE IF a < 0 THEN -1 ELSE 0

C31_StepDataRounded ==
    /\ fcall.area = "step_data" /\ fcall.call = "steptime"
    /\ \E i \in 1..Len(fcall.out) : fcall.out[i] = Direct("step_data")
    => LET p == fcall.in.delta * fcall.in.synthFreq
           q == CDiv(p, NSEC_PER_SEC)
           r == Abs(CMod(p, NSEC_PER_SEC))
           v == S32OfReg(fcall.reg)
       IN  /\ 2 * r < NSEC_PER_SEC => v = q
           /\ 2 * r > NSEC_PER_SEC => v = q + Sign(p)
           /\ 2 * r = NSEC_PER_SEC => v \in {q, q + Sign(p)}
           /\ Sign(v) = Sign(fcall.in.delta)

\* C32: a thread that stands at a release of the device lock holds it: no
\* operation unlocks on a path on which it did not lock, so the lock is
\* never released while free or while another thread holds it.
C32_UnlockOnlyByOwner == \A t \in Threads : At(t, "unlock") => lock = t

\* C33: a poll that follows the write of a request to a mailbox's semaphore
\* register reads the semaphore register of that same mailbox.
C33_PollSameMailbox ==
    \A t \in Threads :
        At(t, "poll") /\ Top(t).i > 1 =>
            LET prev == Code(Top(t).f)[Top(t).i - 1]
            IN  prev.k = "wr" /\ prev.reg.role = "sem" =>
                    SemReaders[Stmt(t).fn].reg = prev.reg

\* C34: after a successful periodic-output enable of a pin, whatever the
\* signal format of its pair was, the pin is enabled and its partner is as
\* it was; after a successful disable the pin is disabled and its partner
\* is as it was.
PinEnabled(fmt, pin) ==
    LET F == zl3073x_output_mode_signal_format_t
    IN  fmt = F.BOTH_ENABLED \/ fmt = (IF ZL3073X_P_PIN(pin) THEN F.P_ENABLE ELSE F.N_ENABLE)

Partner(pin) == IF ZL3073X_P_PIN(pin) THEN pin + 1 ELSE pin - 1

C34_PartnerUnchanged ==
    fcall.area = "format" /\ fcall.call = "ptp_enable" /\ fcall.ret = 0 =>
        LET pin == fcall.in.rq.pin
            before == fcall.in.fmt[pin \div 2]
            after == fcall.fmt[pin \div 2]
        IN  /\ PinEnabled(after, pin) <=> fcall.in.rq.on = 1
            /\ PinEnabled(after, Partner(pin)) <=> PinEnabled(before, Partner(pin))

\* C35: after successful enable and disable calls only, bit k of
\* dpll->perout_mask is set if and only if a pin of pair k is enabled in the
\* signal format the device holds; a call that failed left the mask as it
\* was.
C35_MaskMatchesFormat ==
    fcall.area = "format" =>
        /\ fcall.clean =>
              \A k \in FormatPairs :
                 BitAnd(perout_mask, Bit(k)) # 0
                    <=> (PinEnabled(fcall.fmt[k], 2 * k) \/ PinEnabled(fcall.fmt[k], 2 * k + 1))
        /\ fcall.call = "ptp_enable" /\ fcall.ret # 0 => perout_mask = fcall.in.mask

\* C36: a thread that stands at the phase step's read of the output control
\* register indexed by the lowest set bit of dpll->perout_mask finds the
\* mask non-zero, and that bit is one of the output pairs.
C36_StepFromNonEmptyMask ==
    \A t \in Threads :
        At(t, "rd") /\ Stmt(t).reg = Direct("output_ctrl_ffs") =>
            /\ perout_mask # 0
            /\ FfsOutcomes(perout_mask) \subseteq 0..(ZL3073X_MAX_OUTPUT_PIN_PAIRS - 1)

\* C37: when an output operation on pin p reads an output control register
\* to find its synth, the register is that of pair p / 2 (the one the pin
\* state resolver reads for p).
C37_SynthOfPair ==
    \A t \in Threads :
        At(t, "rd") /\ Top(t).f = "zl3073x_synth_get" =>
            Top(t).a = th[t].x \div 2


\* C38: with a responsive device, every operation that was called returns
\* and leaves the device lock released (the wait for the rollover is excused
\* only where the model's seconds counter has reached its bound), and no
\* thread stands at mutex_lock holding the lock already.
SecondsAtBound ==
    /\ tod_sec = MaxSec
    /\ \E u \in Threads : Called(u, "zl3073x_ptp_wait_sec_rollover")
C38_CallsReturnUnlocked ==
    /\ [](\A t \in Threads : At(t, "lock") => lock # t)
    /\ \A t \in Threads :
          Running(t) ~> ((~Running(t) /\ lock # t) \/ SecondsAtBound)


\* C39: a timestamp with 0 <= seconds < 2^48 and 0 <= nanoseconds < 10^9
\* that was set is decoded from the bytes of DPLL_TOD_SEC and DPLL_TOD_NSEC
\* to the same seconds and nanoseconds.
C39_TodBytesRoundTrip ==
    fcall.area = "tod_bytes" /\ fcall.call = "gettime" => fcall.out = fcall.in


\* C40: after a set of the output frequency that wrote them, the output
\* width register holds the number of the output divider register and the
\* esync pulse width register that of the esync divider register.
C40_SameValueTwice ==
    fcall.area = "dividers" /\ fcall.call = "set_output_frequency" =>
        /\ "WIDTH" \in fcall.out => fcall.reg["WIDTH"] = fcall.reg["DIV"]
        /\ "ESYNC_PULSE_WIDTH" \in fcall.out =>
              fcall.reg["ESYNC_PULSE_WIDTH"] = fcall.reg["ESYNC_DIV"]

====
